---- MODULE Spec2Model ----
(***************************************************************************)
(* Neon Arena game server: the room registry, the session handlers         *)
(* (joinRoom, input, startGame, disconnect), GameRoom and its per-tick     *)
(* update, and the 60 TPS game loop.                                       *)
(*                                                                         *)
(* The model follows the power-up server (src/unnamed/part_000, lines      *)
(* 1-559).  The joinRoom handler of src/server.js is modelled separately   *)
(* (the V1 definitions, specification SpecV1).                             *)
(*                                                                         *)
(* Lengths are integers in tenths of a pixel (Px converts), times are      *)
(* integer milliseconds, Math.random() outcomes are integers in            *)
(* thousandths.  Every random draw and every client payload comes from a   *)
(* finite set carried in a bounds record B; the draws are chosen on the    *)
(* horizontal line y = 600 and the inputs move and aim along it, so that   *)
(* every square root the code takes is exact.                              *)
(***************************************************************************)
EXTENDS Integers, Sequences, FiniteSets, TLC

\* ------------------------------------------------------------------------
\* Program constants
\* ------------------------------------------------------------------------
MAX_PLAYERS == 4
MAP_WIDTH == 1600
MAP_HEIGHT == 1200
PLAYER_SPEED == 5
BULLET_SPEED == 14
BULLET_DAMAGE == 20
FIRE_RATE == 130
MAX_HEALTH == 100
ENEMY_SPAWN_RATE == 3500
RESPAWN_TIME == 3000
INITIAL_ENEMIES == 4
MAX_ENEMIES == 10
SAFE_SPAWN_RADIUS == 180
POWERUP_SPAWN_RATE == 15000
MAX_POWERUPS == 5
SPAWN_MARGIN == 120
SAFE_SPAWN_ATTEMPTS == 30
RESPAWN_PENALTY == 25
CONTACT_MARGIN == 18
PICKUP_RADIUS == 25
BULLET_RADIUS == 5
BULLET_OFFSET == 25
EDGE_INSET == 20
POWERUP_RADIUS == 15
NUM_COLORS == 4

\* ------------------------------------------------------------------------
\* Bounds of the model
\* ------------------------------------------------------------------------
NumSockets == 2
LobbySockets == 3
FullSockets == 5
V1Sockets == 3
V1Ticks == 2
MaxTicks == 6
LobbyTicks == 1
StartTime == 20000
ArenaSockets == 2
ArenaTicks == 9
SeededEnemies == 2
TwinSockets == 2
TwinTicks == 2
SwarmSockets == 2
SwarmTicks == 8
DriftSockets == 2
DriftTicks == 3
MaxSkew == 1
RapidSockets == 2
RapidTicks == 3
WalkSockets == 1
WalkTicks == 21
LateRuns == 2
OrphanSockets == 2
OrphanTicks == 4
VolleySockets == 1
VolleyTicks == 12

\* ------------------------------------------------------------------------
\* Values
\* ------------------------------------------------------------------------
\* An optional JavaScript value: <<>> is undefined, <<v>> is the value v.
None == <<>>
Some(v) == <<v>>

Px(n) == 10 * n
Abs(n) == IF n < 0 THEN -n ELSE n
Max(a, b) == IF a >= b THEN a ELSE b
Min(a, b) == IF a <= b THEN a ELSE b

\* String.prototype.toUpperCase on a string kept as a sequence of characters.
UpperChar(c) ==
    CASE c = "a" -> "A" [] c = "b" -> "B" [] c = "c" -> "C" [] OTHER -> c
ToUpperCase(str) == [i \in 1..Len(str) |-> UpperChar(str[i])]

\* String.prototype.trim: strips leading and trailing white space.
RECURSIVE TrimStart(_)
TrimStart(str) ==
    IF str # <<>> /\ Head(str) = " " THEN TrimStart(Tail(str)) ELSE str
RECURSIVE TrimEnd(_)
TrimEnd(str) ==
    IF str # <<>> /\ str[Len(str)] = " "
    THEN TrimEnd(SubSeq(str, 1, Len(str) - 1)) ELSE str
Trim(str) == TrimEnd(TrimStart(str))

\* JavaScript truthiness of an optional string: undefined and "" are falsy.
Truthy(opt) == opt # None /\ opt[1] # <<>>

\* Math.sqrt(dx*dx + dy*dy), exact for the axis-aligned and Pythagorean
\* vectors the bounded inputs produce.
Hypot(dx, dy) ==
    IF dy = 0 THEN Abs(dx)
    ELSE IF dx = 0 THEN Abs(dy)
    ELSE CHOOSE r \in Max(Abs(dx), Abs(dy))..(Abs(dx) + Abs(dy)) :
            r * r = dx * dx + dy * dy

DistSq(a, b) == (a.x - b.x) * (a.x - b.x) + (a.y - b.y) * (a.y - b.y)

\* distance(a, b) < r, for r >= 0 (both sides squared).
DistLess(a, b, r) == DistSq(a, b) < r * r

\* The power-up table POWERUP_TYPES: kind and duration.
POWERUP_TYPES ==
    << [type |-> "rapid",  duration |-> 8000],
       [type |-> "power",  duration |-> 8000],
       [type |-> "speed",  duration |-> 6000],
       [type |-> "shield", duration |-> 5000] >>

NoPowerups == [rapid |-> 0, power |-> 0, speed |-> 0, shield |-> 0]

\* The input snapshot a player starts with: {}.
EmptyInput ==
    [up |-> FALSE, down |-> FALSE, left |-> FALSE, right |-> FALSE,
     moveX |-> None, moveY |-> None, angle |-> None, shooting |-> FALSE]

\* ------------------------------------------------------------------------
\* Random positions
\* ------------------------------------------------------------------------
\* getRandomSpawn with the two Math.random() outcomes r.rx, r.ry.
SpawnAt(r) ==
    [x |-> Px(SPAWN_MARGIN) + (r.rx * (Px(MAP_WIDTH) - Px(SPAWN_MARGIN) * 2)) \div 1000,
     y |-> Px(SPAWN_MARGIN) + (r.ry * (Px(MAP_HEIGHT) - Px(SPAWN_MARGIN) * 2)) \div 1000]

\* The positions getRandomSpawn can return for the outcomes in R.
getRandomSpawn(R) == { SpawnAt(r) : r \in R }

\* Faulty variant of IsSafe: every candidate passes.
IsSafeAlways(p, enemies) == TRUE

\* The test of getSafeSpawn's inner loop: no enemy closer than the radius.
\* An enemy whose coordinates are NaN fails every comparison.
IsSafe(p, enemies) ==
    \A j \in 1..Len(enemies) :
        enemies[j].nan \/ ~DistLess(p, enemies[j], Px(SAFE_SPAWN_RADIUS))

\* The positions getSafeSpawn can return: the first safe draw, or, when all
\* SAFE_SPAWN_ATTEMPTS draws were unsafe, whatever getRandomSpawn returns.
getSafeSpawn(enemies, R) ==
    IF SAFE_SPAWN_ATTEMPTS = 0 THEN getRandomSpawn(R)
    ELSE { p \in getRandomSpawn(R) : IsSafe(p, enemies) }
         \cup (IF \E p \in getRandomSpawn(R) : ~IsSafe(p, enemies)
               THEN getRandomSpawn(R) ELSE {})

\* ------------------------------------------------------------------------
\* GameRoom
\* ------------------------------------------------------------------------
\* new GameRoom(roomId, hostId)
GameRoom(roomId, hostId) ==
    [id |-> roomId, hostId |-> hostId, state |-> "waiting",
     players |-> <<>>, bullets |-> <<>>, enemies |-> <<>>, powerups |-> <<>>,
     lastEnemySpawn |-> 0, lastPowerupSpawn |-> 0]

\* The players Map: a sequence of players in insertion order, keyed by id.
HasPlayer(room, id) == \E i \in 1..Len(room.players) : room.players[i].id = id
PlayerIndex(room, id) == CHOOSE i \in 1..Len(room.players) : room.players[i].id = id
PlayerIds(room) == { room.players[i].id : i \in 1..Len(room.players) }

\* The weighted draw of spawnEnemy: weights 0.65, 0.25, 0.10 over
\* normal, fast, tank; 'normal' when the loop ends without a match.
EnemyType(rt) ==
    IF rt - 650 <= 0 THEN "normal"
    ELSE IF rt - 650 - 250 <= 0 THEN "fast"
    ELSE IF rt - 650 - 250 - 100 <= 0 THEN "tank"
    ELSE "normal"

\* The stats table of spawnEnemy (radius and speed in tenths of a pixel).
EnemyStats(type) ==
    CASE type = "normal" -> [radius |-> 160, speed |-> 28, health |-> 20, points |-> 50]
      [] type = "fast"   -> [radius |-> 120, speed |-> 50, health |-> 15, points |-> 75]
      [] type = "tank"   -> [radius |-> 280, speed |-> 10, health |-> 50, points |-> 150]

\* GameRoom.spawnEnemy with the Math.random() outcomes r.rt, r.rx, r.ry.
spawnEnemy(room, r) ==
    IF Len(room.enemies) >= MAX_ENEMIES THEN room
    ELSE LET type == EnemyType(r.rt)
             stat == EnemyStats(type)
             spawn == SpawnAt(r)
         IN [room EXCEPT !.enemies = Append(@,
                [x |-> spawn.x, y |-> spawn.y, nan |-> FALSE, type |-> type,
                 radius |-> stat.radius, speed |-> stat.speed,
                 health |-> stat.health, maxHealth |-> stat.health,
                 points |-> stat.points, angle |-> 0])]

\* Math.floor(Math.random() * POWERUP_TYPES.length), as a 1-based index.
PowerupIndex(rt) == (rt * Len(POWERUP_TYPES)) \div 1000 + 1

\* GameRoom.spawnPowerup with the Math.random() outcomes r.rt, r.rx, r.ry.
spawnPowerup(room, r) ==
    IF Len(room.powerups) >= MAX_POWERUPS THEN room
    ELSE LET spawn == SpawnAt(r)
             powerupType == POWERUP_TYPES[PowerupIndex(r.rt)]
         IN [room EXCEPT !.powerups = Append(@,
                [x |-> spawn.x, y |-> spawn.y, type |-> powerupType.type,
                 duration |-> powerupType.duration,
                 radius |-> Px(POWERUP_RADIUS), pulse |-> 0])]

\* The player object addPlayer builds.
NewPlayer(room, id, nickname, spawn) ==
    [id |-> id, nickname |-> nickname,
     x |-> spawn.x, y |-> spawn.y, angle |-> 0,
     color |-> Len(room.players) % NUM_COLORS,
     health |-> MAX_HEALTH, score |-> 0, alive |-> TRUE,
     respawnTime |-> 0, lastShot |-> 0,
     input |-> Some(EmptyInput), powerups |-> NoPowerups]

\* GameRoom.addPlayer: players.set(socket.id, player) replaces the value of
\* a key already present and appends a new key otherwise.
addPlayer(room, id, nickname, spawn) ==
    LET player == NewPlayer(room, id, nickname, spawn)
    IN IF HasPlayer(room, id)
       THEN [room EXCEPT !.players[PlayerIndex(room, id)] = player]
       ELSE [room EXCEPT !.players = Append(@, player)]

\* Faulty variant of removePlayer: the host is never reassigned.
removePlayerKeepHost(room, id) ==
    [room EXCEPT !.players = SelectSeq(room.players, LAMBDA p : p.id # id)]

\* Faulty variant of removePlayer: a room whose host leaves goes back to the
\* lobby.
removePlayerToLobby(room, id) ==
    LET rest == SelectSeq(room.players, LAMBDA p : p.id # id)
    IN [room EXCEPT
          !.players = rest,
          !.hostId = IF room.hostId = id /\ Len(rest) > 0 THEN rest[1].id ELSE @,
          !.state = IF room.hostId = id /\ Len(rest) > 0 THEN "waiting" ELSE @]

\* GameRoom.removePlayer: deletes the key and, if it was the host and players
\* remain, makes the first remaining key the host.
removePlayer(room, id) ==
    LET rest == SelectSeq(room.players, LAMBDA p : p.id # id)
    IN [room EXCEPT
          !.players = rest,
          !.hostId = IF room.hostId = id /\ Len(rest) > 0 THEN rest[1].id ELSE @]

\* GameRoom.applyPowerup, with dateNow the value of Date.now() it reads.
applyPowerup(player, powerup, dateNow) ==
    CASE powerup.type = "rapid"  -> [player EXCEPT !.powerups.rapid = dateNow + powerup.duration]
      [] powerup.type = "power"  -> [player EXCEPT !.powerups.power = dateNow + powerup.duration]
      [] powerup.type = "speed"  -> [player EXCEPT !.powerups.speed = dateNow + powerup.duration]
      [] powerup.type = "shield" -> [player EXCEPT !.powerups.shield = dateNow + powerup.duration]
      [] OTHER -> player

\* An input's angle is stored and used as the client sent it.  TextAngle
\* stands for an angle that is no number, such as the string 'x': Math.cos
\* and Math.sin of it are NaN.
TextAngle == -1
IsNaNAngle(a) == a = TextAngle

\* Math.cos and Math.sin of the angles the inputs carry (degrees).
Cos(a) == CASE a = 0 -> 1 [] a = 180 -> -1 [] a = 90 -> 0 [] a = 270 -> 0
Sin(a) == CASE a = 0 -> 0 [] a = 180 -> 0 [] a = 90 -> 1 [] a = 270 -> -1

\* Math.atan2(dy, dx) in degrees, for the axis-aligned vectors of the model.
Atan2(dy, dx) ==
    CASE dy = 0 /\ dx >= 0 -> 0
      [] dy = 0 /\ dx < 0  -> 180
      [] dx = 0 /\ dy > 0  -> 90
      [] dx = 0 /\ dy < 0  -> 270

\* GameRoom.fireBullet; born is the Date.now() that the bullet's id carries,
\* taken to be the time of the loop run that fires it.  With an angle whose
\* cosine and sine are NaN the position and the velocity of the bullet are
\* NaN: the flag nan says so, and the numbers in x, y, vx, vy then stand for
\* nothing.
fireBullet(room, player, dateNow) ==
    [room EXCEPT !.bullets = Append(@,
        IF IsNaNAngle(player.angle)
        THEN [born |-> dateNow, nan |-> TRUE,
              x |-> player.x, y |-> player.y, vx |-> 0, vy |-> 0,
              radius |-> Px(BULLET_RADIUS), ownerId |-> player.id]
        ELSE [born |-> dateNow, nan |-> FALSE,
              x |-> player.x + Cos(player.angle) * Px(BULLET_OFFSET),
              y |-> player.y + Sin(player.angle) * Px(BULLET_OFFSET),
              vx |-> Cos(player.angle) * Px(BULLET_SPEED),
              vy |-> Sin(player.angle) * Px(BULLET_SPEED),
              radius |-> Px(BULLET_RADIUS), ownerId |-> player.id])]

\* GameRoom.getState
getState(room) ==
    [id |-> room.id, state |-> room.state,
     players |-> [i \in 1..Len(room.players) |->
        [id |-> room.players[i].id, nickname |-> room.players[i].nickname,
         x |-> room.players[i].x, y |-> room.players[i].y,
         angle |-> room.players[i].angle, color |-> room.players[i].color,
         health |-> room.players[i].health, score |-> room.players[i].score,
         alive |-> room.players[i].alive, powerups |-> room.players[i].powerups]],
     bullets |-> room.bullets, enemies |-> room.enemies, powerups |-> room.powerups,
     hostId |-> room.hostId, playerCount |-> Len(room.players)]

\* ------------------------------------------------------------------------
\* GameRoom.update: player phase
\* ------------------------------------------------------------------------
\* Faulty variant of Respawn: the penalty is subtracted without the floor.
RespawnNoFloor(player, spawn) ==
    [player EXCEPT
        !.x = spawn.x, !.y = spawn.y,
        !.health = MAX_HEALTH,
        !.alive = TRUE,
        !.score = @ - RESPAWN_PENALTY,
        !.powerups = NoPowerups]

\* The respawn branch: a dead player whose respawn time has passed.
Respawn(player, spawn) ==
    [player EXCEPT
        !.x = spawn.x, !.y = spawn.y,
        !.health = MAX_HEALTH,
        !.alive = TRUE,
        !.score = Max(0, @ - RESPAWN_PENALTY),
        !.powerups = NoPowerups]

\* The raw movement vector of an input: the analog axes plus the four flags.
InputDx(input) ==
    (IF input.moveX # None \/ input.moveY # None
     THEN (IF input.moveX # None THEN input.moveX[1] ELSE 0) ELSE 0)
    - (IF input.left THEN 1 ELSE 0) + (IF input.right THEN 1 ELSE 0)
InputDy(input) ==
    (IF input.moveX # None \/ input.moveY # None
     THEN (IF input.moveY # None THEN input.moveY[1] ELSE 0) ELSE 0)
    - (IF input.up THEN 1 ELSE 0) + (IF input.down THEN 1 ELSE 0)

\* PLAYER_SPEED, or PLAYER_SPEED * 1.6 while the speed power-up is active.
PlayerSpeed(player, now) ==
    IF player.powerups.speed > now
    THEN (Px(PLAYER_SPEED) * 16) \div 10
    ELSE Px(PLAYER_SPEED)

Clamp(lo, hi, v) == Max(lo, Min(hi, v))

\* Faulty variant of MovePlayer: the new position is not clamped.
MovePlayerNoClamp(player, now) ==
    IF player.input = None THEN player
    ELSE LET dx == InputDx(player.input[1])
             dy == InputDy(player.input[1])
             len == Hypot(dx, dy)
             sx == IF len > 0 THEN (dx * PlayerSpeed(player, now)) \div len ELSE dx
             sy == IF len > 0 THEN (dy * PlayerSpeed(player, now)) \div len ELSE dy
         IN [player EXCEPT !.x = @ + sx, !.y = @ + sy]

\* Movement of a living player: normalise, scale by the speed, add, clamp.
MovePlayer(player, now) ==
    IF player.input = None THEN player
    ELSE LET dx == InputDx(player.input[1])
             dy == InputDy(player.input[1])
             len == Hypot(dx, dy)
             sx == IF len > 0 THEN (dx * PlayerSpeed(player, now)) \div len ELSE dx
             sy == IF len > 0 THEN (dy * PlayerSpeed(player, now)) \div len ELSE dy
         IN [player EXCEPT
               !.x = Clamp(Px(EDGE_INSET), Px(MAP_WIDTH) - Px(EDGE_INSET), @ + sx),
               !.y = Clamp(Px(EDGE_INSET), Px(MAP_HEIGHT) - Px(EDGE_INSET), @ + sy)]

\* The facing angle follows the input when the input carries one.
TurnPlayer(player) ==
    IF player.input # None /\ player.input[1].angle # None
    THEN [player EXCEPT !.angle = player.input[1].angle[1]]
    ELSE player

\* currentTime - lastShot >= fireRate, where fireRate is FIRE_RATE / 2.5
\* while the rapid-fire power-up is active and FIRE_RATE otherwise.
CooldownOver(player, now) ==
    IF player.powerups.rapid > now
    THEN (now - player.lastShot) * 25 >= FIRE_RATE * 10
    ELSE now - player.lastShot >= FIRE_RATE

Shoots(player, now) ==
    /\ player.input # None
    /\ player.input[1].shooting
    /\ player.alive
    /\ CooldownOver(player, now)

\* Faulty variant of StepPlayer: the respawn branch does not end the
\* iteration, so the respawned player goes on to move, turn and shoot.
StepPlayerNoContinue(room, i, now, spawn) ==
    LET p == room.players[i]
        q == IF ~p.alive /\ now > p.respawnTime
             THEN TurnPlayer(MovePlayer(Respawn(p, spawn), now))
             ELSE TurnPlayer(MovePlayer(p, now))
    IN IF ~p.alive /\ ~(now > p.respawnTime) THEN room
       ELSE IF Shoots(q, now)
       THEN [fireBullet(room, q, now) EXCEPT !.players[i] = [q EXCEPT !.lastShot = now]]
       ELSE [room EXCEPT !.players[i] = q]

\* Faulty variant of StepPlayer: a dead player is passed over whatever the
\* time.
StepPlayerNoRespawn(room, i, now, spawn) ==
    LET p == room.players[i]
    IN IF ~p.alive
       THEN room
       ELSE LET q == TurnPlayer(MovePlayer(p, now))
            IN IF Shoots(q, now)
               THEN [fireBullet(room, q, now) EXCEPT !.players[i] = [q EXCEPT !.lastShot = now]]
               ELSE [room EXCEPT !.players[i] = q]

\* One iteration of the player loop, on player i.
StepPlayer(room, i, now, spawn) ==
    LET p == room.players[i]
    IN IF ~p.alive
       THEN IF now > p.respawnTime
            THEN [room EXCEPT !.players[i] = Respawn(p, spawn)]
            ELSE room
       ELSE LET q == TurnPlayer(MovePlayer(p, now))
            IN IF Shoots(q, now)
               THEN [fireBullet(room, q, now) EXCEPT !.players[i] = [q EXCEPT !.lastShot = now]]
               ELSE [room EXCEPT !.players[i] = q]

RECURSIVE PlayerPhase(_, _, _, _)
PlayerPhase(room, i, now, spawns) ==
    IF i > Len(room.players) THEN room
    ELSE PlayerPhase(StepPlayer(room, i, now, spawns[i]), i + 1, now, spawns)

\* ------------------------------------------------------------------------
\* GameRoom.update: bullet phase
\* ------------------------------------------------------------------------
RemoveAt(seq, i) == SubSeq(seq, 1, i - 1) \o SubSeq(seq, i + 1, Len(seq))

\* The out-of-map test of the bullet loop; every comparison with NaN is
\* false.
OutOfMap(b) ==
    ~b.nan /\ (b.x < 0 \/ b.x > Px(MAP_WIDTH) \/ b.y < 0 \/ b.y > Px(MAP_HEIGHT))

Overlaps(bullet, enemy) ==
    ~bullet.nan /\ ~enemy.nan /\ DistLess(bullet, enemy, bullet.radius + enemy.radius)

\* The enemy the inner loop stops at: it runs from the last enemy down.
HitIndex(bullet, enemies) ==
    IF \E j \in 1..Len(enemies) : Overlaps(bullet, enemies[j])
    THEN CHOOSE j \in 1..Len(enemies) :
            /\ Overlaps(bullet, enemies[j])
            /\ \A k \in (j + 1)..Len(enemies) : ~Overlaps(bullet, enemies[k])
    ELSE 0

\* Faulty variant of BulletDamage: the damage power-up is ignored.
BulletDamageNoBuff(room, bullet, now) == BULLET_DAMAGE

\* BULLET_DAMAGE, doubled while the owner is present and has the damage
\* power-up active.
BulletDamage(room, bullet, now) ==
    IF HasPlayer(room, bullet.ownerId)
       /\ room.players[PlayerIndex(room, bullet.ownerId)].powerups.power > now
    THEN BULLET_DAMAGE * 2
    ELSE BULLET_DAMAGE

\* Faulty variant of HitEnemy: the bullet stays in the list after the hit.
HitEnemyKeepBullet(room, i, j, now) ==
    LET bullet == room.bullets[i]
        health == room.enemies[j].health - BulletDamage(room, bullet, now)
        hit == [room EXCEPT !.enemies[j].health = health]
    IN IF health <= 0
       THEN [hit EXCEPT
               !.players = IF HasPlayer(room, bullet.ownerId)
                           THEN [@ EXCEPT ![PlayerIndex(room, bullet.ownerId)].score =
                                              @ + room.enemies[j].points]
                           ELSE @,
               !.enemies = RemoveAt(@, j)]
       ELSE hit

\* Faulty variant of HitEnemy: an enemy brought to health <= 0 stays in the
\* list.
HitEnemyKeepDead(room, i, j, now) ==
    LET bullet == room.bullets[i]
        health == room.enemies[j].health - BulletDamage(room, bullet, now)
        hit == [room EXCEPT !.enemies[j].health = health,
                            !.bullets = RemoveAt(@, i)]
    IN IF health <= 0
       THEN [hit EXCEPT
               !.players = IF HasPlayer(room, bullet.ownerId)
                           THEN [@ EXCEPT ![PlayerIndex(room, bullet.ownerId)].score =
                                              @ + room.enemies[j].points]
                           ELSE @]
       ELSE hit

\* Faulty variant of HitEnemy: the kill is handled only when the bullet's
\* owner is still a player of the room.
HitEnemyNeedsOwner(room, i, j, now) ==
    LET bullet == room.bullets[i]
        health == room.enemies[j].health - BulletDamage(room, bullet, now)
        hit == [room EXCEPT !.enemies[j].health = health,
                            !.bullets = RemoveAt(@, i)]
    IN IF health <= 0 /\ HasPlayer(room, bullet.ownerId)
       THEN [hit EXCEPT
               !.players = [@ EXCEPT ![PlayerIndex(room, bullet.ownerId)].score =
                                         @ + room.enemies[j].points],
               !.enemies = RemoveAt(@, j)]
       ELSE hit

\* The bullet at index i hits the enemy at index j.
HitEnemy(room, i, j, now) ==
    LET bullet == room.bullets[i]
        health == room.enemies[j].health - BulletDamage(room, bullet, now)
        hit == [room EXCEPT !.enemies[j].health = health,
                            !.bullets = RemoveAt(@, i)]
    IN IF health <= 0
       THEN [hit EXCEPT
               !.players = IF HasPlayer(room, bullet.ownerId)
                           THEN [@ EXCEPT ![PlayerIndex(room, bullet.ownerId)].score =
                                              @ + room.enemies[j].points]
                           ELSE @,
               !.enemies = RemoveAt(@, j)]
       ELSE hit

\* One iteration of the bullet loop, on bullet i.
StepBullet(room, i, now) ==
    LET b == [room.bullets[i] EXCEPT !.x = @ + room.bullets[i].vx,
                                      !.y = @ + room.bullets[i].vy]
        moved == [room EXCEPT !.bullets[i] = b]
    IN IF OutOfMap(b) THEN [room EXCEPT !.bullets = RemoveAt(@, i)]
       ELSE IF HitIndex(b, room.enemies) # 0
            THEN HitEnemy(moved, i, HitIndex(b, room.enemies), now)
            ELSE moved

RECURSIVE BulletPhase(_, _, _)
BulletPhase(room, i, now) ==
    IF i < 1 THEN room
    ELSE BulletPhase(StepBullet(room, i, now), i - 1, now)

\* ------------------------------------------------------------------------
\* GameRoom.update: enemy phase
\* ------------------------------------------------------------------------
\* The nearest living player of an enemy: the first in Map order among the
\* closest; 0 when no player is alive or the enemy's position is NaN.
NearestPlayer(room, enemy) ==
    LET living == { i \in 1..Len(room.players) : room.players[i].alive }
    IN IF enemy.nan \/ living = {} THEN 0
       ELSE CHOOSE i \in living :
               \A k \in living :
                  \/ DistSq(enemy, room.players[i]) < DistSq(enemy, room.players[k])
                  \/ (DistSq(enemy, room.players[i]) = DistSq(enemy, room.players[k]) /\ i <= k)

\* The enemy steps towards the target by its speed; a target at distance 0
\* makes the step 0/0, and the enemy's coordinates NaN.
MoveEnemy(enemy, target) ==
    LET dx == target.x - enemy.x
        dy == target.y - enemy.y
        dist == Hypot(dx, dy)
    IN IF dist = 0
       THEN [enemy EXCEPT !.nan = TRUE, !.angle = Atan2(dy, dx)]
       ELSE [enemy EXCEPT !.x = @ + (dx * enemy.speed) \div dist,
                          !.y = @ + (dy * enemy.speed) \div dist,
                          !.angle = Atan2(dy, dx)]

ContactDamage(enemy) == IF enemy.type = "tank" THEN 5 ELSE 3

InContact(enemy, player) ==
    ~enemy.nan /\ DistLess(enemy, player, enemy.radius + Px(CONTACT_MARGIN))

\* Faulty variant of DamagePlayer: a dying player keeps the health the last
\* hit left (no health = 0).
DamagePlayerNoClamp(player, enemy, now) ==
    IF ~player.alive \/ player.powerups.shield > now \/ ~InContact(enemy, player)
    THEN player
    ELSE LET health == player.health - ContactDamage(enemy)
         IN IF health <= 0
            THEN [player EXCEPT !.alive = FALSE,
                                !.respawnTime = now + RESPAWN_TIME,
                                !.health = health]
            ELSE [player EXCEPT !.health = health]

\* Faulty variant of DamagePlayer: the shield power-up is ignored.
DamagePlayerNoShield(player, enemy, now) ==
    IF ~player.alive \/ ~InContact(enemy, player)
    THEN player
    ELSE LET health == player.health - ContactDamage(enemy)
         IN IF health <= 0
            THEN [player EXCEPT !.alive = FALSE,
                                !.respawnTime = now + RESPAWN_TIME,
                                !.health = 0]
            ELSE [player EXCEPT !.health = health]

\* Faulty variant of DamagePlayer: a player whose health reaches 0 is not
\* marked dead.
DamagePlayerStayAlive(player, enemy, now) ==
    IF ~player.alive \/ player.powerups.shield > now \/ ~InContact(enemy, player)
    THEN player
    ELSE LET health == player.health - ContactDamage(enemy)
         IN IF health <= 0
            THEN [player EXCEPT !.respawnTime = now + RESPAWN_TIME,
                                !.health = 0]
            ELSE [player EXCEPT !.health = health]

\* The contact test and damage of one enemy on one player.
DamagePlayer(player, enemy, now) ==
    IF ~player.alive \/ player.powerups.shield > now \/ ~InContact(enemy, player)
    THEN player
    ELSE LET health == player.health - ContactDamage(enemy)
         IN IF health <= 0
            THEN [player EXCEPT !.alive = FALSE,
                                !.respawnTime = now + RESPAWN_TIME,
                                !.health = 0]
            ELSE [player EXCEPT !.health = health]

\* One iteration of the enemy loop, on enemy j.
StepEnemy(room, j, now) ==
    LET n == NearestPlayer(room, room.enemies[j])
    IN IF n = 0 THEN room
       ELSE LET e == MoveEnemy(room.enemies[j], room.players[n])
            IN [room EXCEPT
                  !.enemies[j] = e,
                  !.players = [i \in 1..Len(room.players) |->
                                  DamagePlayer(room.players[i], e, now)]]

RECURSIVE EnemyPhase(_, _, _)
EnemyPhase(room, j, now) ==
    IF j > Len(room.enemies) THEN room
    ELSE EnemyPhase(StepEnemy(room, j, now), j + 1, now)

\* ------------------------------------------------------------------------
\* GameRoom.update: power-up collection and spawning
\* ------------------------------------------------------------------------
\* Faulty variant of Collector: dead players collect too.
CollectorDeadToo(room, powerup) ==
    LET near == { i \in 1..Len(room.players) :
                    DistLess(room.players[i], powerup, Px(PICKUP_RADIUS)) }
    IN IF near = {} THEN 0 ELSE CHOOSE i \in near : \A k \in near : i <= k

\* The first living player in Map order within the pickup radius; 0 if none.
Collector(room, powerup) ==
    LET near == { i \in 1..Len(room.players) :
                    /\ room.players[i].alive
                    /\ DistLess(room.players[i], powerup, Px(PICKUP_RADIUS)) }
    IN IF near = {} THEN 0 ELSE CHOOSE i \in near : \A k \in near : i <= k

\* One iteration of the power-up loop, on power-up i; c carries the room and
\* the powerupCollected events emitted so far.
StepPowerup(c, i, dateNow) ==
    LET room == [c.room EXCEPT !.powerups[i].pulse = @ + 1]
        powerup == room.powerups[i]
        n == Collector(room, powerup)
    IN IF n = 0 THEN [c EXCEPT !.room = room]
       ELSE [room |-> [room EXCEPT
                          !.players[n] = applyPowerup(room.players[n], powerup, dateNow),
                          !.powerups = RemoveAt(@, i)],
             msgs |-> Append(c.msgs,
                          [ev |-> "powerupCollected", to |-> room.players[n].id,
                           type |-> powerup.type, duration |-> powerup.duration])]

RECURSIVE PowerupPhase(_, _, _)
PowerupPhase(c, i, dateNow) ==
    IF i < 1 THEN c
    ELSE PowerupPhase(StepPowerup(c, i, dateNow), i - 1, dateNow)

\* Faulty variant of SpawnPhase: the enemy spawn ignores the population cap.
SpawnPhaseNoCap(room, now, er, pr) ==
    LET r1 == IF now - room.lastEnemySpawn > ENEMY_SPAWN_RATE
              THEN [room EXCEPT
                      !.enemies = @ \o spawnEnemy([room EXCEPT !.enemies = <<>>], er).enemies,
                      !.lastEnemySpawn = now]
              ELSE room
    IN IF now - r1.lastPowerupSpawn > POWERUP_SPAWN_RATE
       THEN [spawnPowerup(r1, pr) EXCEPT !.lastPowerupSpawn = now]
       ELSE r1

\* The two timed spawns at the end of update.
SpawnPhase(room, now, er, pr) ==
    LET r1 == IF now - room.lastEnemySpawn > ENEMY_SPAWN_RATE
                 /\ Len(room.enemies) < MAX_ENEMIES
              THEN [spawnEnemy(room, er) EXCEPT !.lastEnemySpawn = now]
              ELSE room
    IN IF now - r1.lastPowerupSpawn > POWERUP_SPAWN_RATE
       THEN [spawnPowerup(r1, pr) EXCEPT !.lastPowerupSpawn = now]
       ELSE r1

\* GameRoom.update(currentTime).  d carries what the tick draws or reads from
\* outside: d.spawns[i] the getSafeSpawn result for player i, d.dateNow the
\* Date.now() applyPowerup reads, d.er and d.pr the Math.random() outcomes of
\* spawnEnemy and spawnPowerup.  The result is the room and the events emitted.
\* Faulty variant of update: the lifecycle state is not tested.
updateAnyState(room, now, d) ==
    LET r1 == PlayerPhase(room, 1, now, d.spawns)
        r2 == BulletPhase(r1, Len(r1.bullets), now)
        r3 == EnemyPhase(r2, 1, now)
        c4 == PowerupPhase([room |-> r3, msgs |-> <<>>], Len(r3.powerups), d.dateNow)
    IN [c4 EXCEPT !.room = SpawnPhase(c4.room, now, d.er, d.pr)]

update(room, now, d) ==
    IF room.state # "playing" THEN [room |-> room, msgs |-> <<>>]
    ELSE LET r1 == PlayerPhase(room, 1, now, d.spawns)
             r2 == BulletPhase(r1, Len(r1.bullets), now)
             r3 == EnemyPhase(r2, 1, now)
             c4 == PowerupPhase([room |-> r3, msgs |-> <<>>], Len(r3.powerups), d.dateNow)
         IN [c4 EXCEPT !.room = SpawnPhase(c4.room, now, d.er, d.pr)]

\* ------------------------------------------------------------------------
\* What a tick can draw
\* ------------------------------------------------------------------------
NoSpawn == [x |-> 0, y |-> 0]
NoRand == [rt |-> 0, rx |-> 0, ry |-> 0]

Respawning(room, i, now) ==
    ~room.players[i].alive /\ now > room.players[i].respawnTime

\* One getSafeSpawn result for every player that respawns in this tick.
RespawnDraws(room, now, B) ==
    { f \in [1..Len(room.players) -> getRandomSpawn(B.playerRand) \cup {NoSpawn}] :
        \A i \in 1..Len(room.players) :
            IF Respawning(room, i, now)
            THEN f[i] \in getSafeSpawn(room.enemies, B.playerRand)
            ELSE f[i] = NoSpawn }

UpdateDraws(room, now, B) ==
    IF room.state # "playing"
    THEN { [spawns |-> <<>>, dateNow |-> now, er |-> NoRand, pr |-> NoRand] }
    ELSE { [spawns |-> f, dateNow |-> now + k, er |-> er, pr |-> pr] :
             f \in RespawnDraws(room, now, B), k \in B.skews,
             er \in B.enemyRand, pr \in B.powerupRand }

\* ------------------------------------------------------------------------
\* State
\* ------------------------------------------------------------------------
VARIABLES
    rooms,   \* the registry: room code -> GameRoom
    order,   \* the registry's codes in Map insertion order
    sock,    \* per connection: live, socket.roomId, the socket.io rooms joined
    clock,   \* Date.now()
    ticks,   \* number of game-loop runs so far
    out,     \* the events emitted by the last handler or game-loop run
    last,    \* the last handler or game-loop run: its name and connection
    up,      \* the server process is running (an uncaught exception ends
             \* server.js; part_000 logs it and goes on)
    call     \* a getSafeSpawn call followed draw by draw: its argument, its
             \* attempts counter, the candidates rejected, the positions
             \* drawn so far and the position returned

vars == <<rooms, order, sock, clock, ticks, out, last, up, call>>

\* A getSafeSpawn call on the list `enemies`, before its first draw.
SafeSpawnCall(enemies) ==
    [enemies |-> enemies, attempts |-> 0, tried |-> {}, draws |-> 0, result |-> None]

\* The record of a run of handler op on connection s (0 for the game loop).
Ran(op, s) == [op |-> op, s |-> s]

\* The live connections that are members of the socket.io room `name`.
Members(name) == { t \in DOMAIN sock : sock[t].live /\ name \in sock[t].joined }

\* rooms.get(socket.roomId): the code of the room, or None.
RoomOf(s) ==
    IF sock[s].roomId # None /\ sock[s].roomId[1] \in DOMAIN rooms
    THEN sock[s].roomId ELSE None

ErrorTo(s, why) == [ev |-> "error", to |-> {s}, message |-> why]

\* rooms.set(code, room)
SetRoom(code, room) ==
    [c \in DOMAIN rooms \cup {code} |-> IF c = code THEN room ELSE rooms[c]]

\* rooms.delete(code)
DeleteRoom(code) == [c \in DOMAIN rooms \ {code} |-> rooms[c]]

\* The key order of the registry after rooms.set(code, ...) and rooms.delete(code).
OrderSet(code) == IF code \in DOMAIN rooms THEN order ELSE Append(order, code)
OrderDelete(code) == SelectSeq(order, LAMBDA c : c # code)

\* ------------------------------------------------------------------------
\* Session handlers
\* ------------------------------------------------------------------------
\* Faulty variant of AddAndAnnounce: the notice is emitted with io.to, so the
\* requester receives it too.
AddAndAnnounceToAll(s, room, nickname, spawn) ==
    LET joined == addPlayer(room, s, nickname, spawn)
    IN /\ rooms' = SetRoom(room.id, joined)
       /\ order' = OrderSet(room.id)
       /\ sock' = [sock EXCEPT ![s].roomId = Some(room.id),
                               ![s].joined = @ \cup {room.id}]
       /\ out' = << [ev |-> "roomJoined", to |-> {s}, roomId |-> room.id,
                     playerId |-> s, isHost |-> (s = joined.hostId),
                     state |-> getState(joined)],
                    [ev |-> "playerJoined", to |-> Members(room.id) \cup {s},
                     player |-> joined.players[PlayerIndex(joined, s)]] >>

\* The tail of the joinRoom handler: addPlayer, the acknowledgement to the
\* requester and the notice to the other members of the room.
AddAndAnnounce(s, room, nickname, spawn) ==
    LET joined == addPlayer(room, s, nickname, spawn)
    IN /\ rooms' = SetRoom(room.id, joined)
       /\ order' = OrderSet(room.id)
       /\ sock' = [sock EXCEPT ![s].roomId = Some(room.id),
                               ![s].joined = @ \cup {room.id}]
       /\ out' = << [ev |-> "roomJoined", to |-> {s}, roomId |-> room.id,
                     playerId |-> s, isHost |-> (s = joined.hostId),
                     state |-> getState(joined)],
                    [ev |-> "playerJoined", to |-> Members(room.id) \ {s},
                     player |-> joined.players[PlayerIndex(joined, s)]] >>

\* The nickname test of joinRoom: nickname && nickname.trim().length >= 1.
ValidNickname(nickname) == Truthy(nickname) /\ Len(Trim(nickname[1])) >= 1

\* Faulty variant of IsFull: the capacity test is off by one.
IsFullOffByOne(room) == Len(room.players) > MAX_PLAYERS

\* The capacity test of joinRoom: room.players.size >= MAX_PLAYERS.
IsFull(room) == Len(room.players) >= MAX_PLAYERS

\* socket.on('joinRoom', data), data = {roomId, nickname}
JoinRoom(s, data, B) ==
    /\ sock[s].live
    /\ last' = Ran("joinRoom", s)
    /\ UNCHANGED <<up, call>>
    /\ UNCHANGED <<clock, ticks>>
    /\ IF ~ValidNickname(data.nickname)
       THEN /\ out' = << ErrorTo(s, "nickname") >>
            /\ UNCHANGED <<rooms, order, sock>>
       ELSE IF Truthy(data.roomId)
       THEN LET code == ToUpperCase(data.roomId[1])
            IN IF code \notin DOMAIN rooms
               THEN /\ out' = << ErrorTo(s, "not found") >>
                    /\ UNCHANGED <<rooms, order, sock>>
               ELSE IF IsFull(rooms[code])
               THEN /\ out' = << ErrorTo(s, "full") >>
                    /\ UNCHANGED <<rooms, order, sock>>
               ELSE \E spawn \in getSafeSpawn(rooms[code].enemies, B.playerRand) :
                       AddAndAnnounce(s, rooms[code], Trim(data.nickname[1]), spawn)
       ELSE \E id \in B.genIds :
            \E spawn \in getSafeSpawn(<<>>, B.playerRand) :
               AddAndAnnounce(s, GameRoom(id, s), Trim(data.nickname[1]), spawn)

\* Faulty variant of Input: a shooting input fires a bullet at once, as a
\* shoot event would, instead of waiting for the next loop run.
InputAndShoot(s, input) ==
    /\ sock[s].live
    /\ last' = Ran("input", s)
    /\ UNCHANGED <<up, call>>
    /\ out' = <<>>
    /\ UNCHANGED <<order, sock, clock, ticks>>
    /\ IF RoomOf(s) # None /\ HasPlayer(rooms[RoomOf(s)[1]], s)
       THEN LET code == RoomOf(s)[1]
                i == PlayerIndex(rooms[code], s)
                stored == [rooms[code] EXCEPT !.players[i].input = input]
            IN rooms' = [rooms EXCEPT
                  ![code] = IF stored.state = "playing" /\ Shoots(stored.players[i], clock)
                            THEN fireBullet(stored, stored.players[i], clock)
                            ELSE stored]
       ELSE UNCHANGED rooms

\* Faulty variant of Input: the input is stored in every room that holds the
\* connection as a player.
InputEveryRoom(s, input) ==
    /\ sock[s].live
    /\ last' = Ran("input", s)
    /\ UNCHANGED <<up, call>>
    /\ out' = <<>>
    /\ UNCHANGED <<order, sock, clock, ticks>>
    /\ rooms' = [c \in DOMAIN rooms |->
                    IF RoomOf(s) # None /\ HasPlayer(rooms[c], s)
                    THEN [rooms[c] EXCEPT !.players[PlayerIndex(rooms[c], s)].input = input]
                    ELSE rooms[c]]

\* socket.on('input', input)
Input(s, input) ==
    /\ sock[s].live
    /\ last' = Ran("input", s)
    /\ UNCHANGED <<up, call>>
    /\ out' = <<>>
    /\ UNCHANGED <<order, sock, clock, ticks>>
    /\ IF RoomOf(s) # None /\ HasPlayer(rooms[RoomOf(s)[1]], s)
       THEN LET code == RoomOf(s)[1]
            IN rooms' = [rooms EXCEPT
                  ![code].players[PlayerIndex(rooms[code], s)].input = input]
       ELSE UNCHANGED rooms

\* The body of the startGame handler on the room, with the values it draws:
\* spawns[i] for player i and ers[k] for the k-th initial enemy.
RECURSIVE SpawnEnemies(_, _, _)
SpawnEnemies(room, ers, k) ==
    IF k > Len(ers) THEN room
    ELSE SpawnEnemies(spawnEnemy(room, ers[k]), ers, k + 1)

\* Faulty variant of ResetPlayer: the power-up expiries are kept.
ResetPlayerKeepPowerups(player, spawn) ==
    [player EXCEPT
        !.x = spawn.x, !.y = spawn.y,
        !.health = MAX_HEALTH,
        !.score = 0,
        !.alive = TRUE]

\* The per-player reset of the startGame handler.
ResetPlayer(player, spawn) ==
    [player EXCEPT
        !.x = spawn.x, !.y = spawn.y,
        !.health = MAX_HEALTH,
        !.score = 0,
        !.alive = TRUE,
        !.powerups = NoPowerups]

\* Faulty variant of startGame: the enemy list is not cleared.
startGameKeepEnemies(room, dateNow, spawns, ers) ==
    LET reset == [room EXCEPT
                    !.state = "playing",
                    !.bullets = <<>>, !.powerups = <<>>,
                    !.lastEnemySpawn = dateNow,
                    !.lastPowerupSpawn = dateNow,
                    !.players = [i \in 1..Len(room.players) |->
                                    ResetPlayer(room.players[i], spawns[i])]]
    IN SpawnEnemies(reset, ers, 1)

startGame(room, dateNow, spawns, ers) ==
    LET reset == [room EXCEPT
                    !.state = "playing",
                    !.enemies = <<>>, !.bullets = <<>>, !.powerups = <<>>,
                    !.lastEnemySpawn = dateNow,
                    !.lastPowerupSpawn = dateNow,
                    !.players = [i \in 1..Len(room.players) |->
                                    ResetPlayer(room.players[i], spawns[i])]]
    IN SpawnEnemies(reset, ers, 1)

\* Faulty variant of IsHost: any connection bound to the room passes.
IsHostAnyMember(s) == RoomOf(s) # None

\* The guard of the startGame handler: room && socket.id === room.hostId.
IsHost(s) == RoomOf(s) # None /\ s = rooms[RoomOf(s)[1]].hostId

\* socket.on('startGame')
StartGame(s, B) ==
    /\ sock[s].live
    /\ last' = Ran("startGame", s)
    /\ UNCHANGED <<up, call>>
    /\ UNCHANGED <<order, sock, clock, ticks>>
    /\ IF IsHost(s)
       THEN LET code == RoomOf(s)[1]
            IN \E spawns \in [1..Len(rooms[code].players) -> getSafeSpawn(<<>>, B.playerRand)] :
               \E ers \in [1..INITIAL_ENEMIES -> B.startRand] :
               \E started \in { startGame(rooms[code], clock, spawns, ers) } :
                     /\ rooms' = [rooms EXCEPT ![code] = started]
                     /\ out' = << [ev |-> "gameStarted", to |-> Members(code),
                                   state |-> getState(started)] >>
       ELSE /\ out' = <<>>
            /\ UNCHANGED rooms

\* Faulty variant of Disconnect: hostChanged is emitted in a playing room too.
DisconnectNotifyAlways(s) ==
    /\ sock[s].live
    /\ last' = Ran("disconnect", s)
    /\ UNCHANGED <<up, call>>
    /\ sock' = [sock EXCEPT ![s].live = FALSE, ![s].joined = {}]
    /\ UNCHANGED <<clock, ticks>>
    /\ IF RoomOf(s) # None
       THEN LET code == RoomOf(s)[1]
                room == removePlayer(rooms[code], s)
                left == [ev |-> "playerLeft", to |-> Members(room.id) \ {s},
                         playerId |-> s]
            IN IF Len(room.players) = 0
               THEN /\ rooms' = DeleteRoom(room.id)
                    /\ order' = OrderDelete(room.id)
                    /\ out' = << left >>
               ELSE /\ rooms' = [rooms EXCEPT ![code] = room]
                    /\ UNCHANGED order
                    /\ out' = IF TRUE
                              THEN << left, [ev |-> "hostChanged", to |-> Members(room.id) \ {s},
                                             hostId |-> room.hostId] >>
                              ELSE << left >>
       ELSE /\ out' = <<>>
            /\ UNCHANGED <<rooms, order>>

\* socket.on('disconnect'): the connection has left its socket.io rooms.
Disconnect(s) ==
    /\ sock[s].live
    /\ last' = Ran("disconnect", s)
    /\ UNCHANGED <<up, call>>
    /\ sock' = [sock EXCEPT ![s].live = FALSE, ![s].joined = {}]
    /\ UNCHANGED <<clock, ticks>>
    /\ IF RoomOf(s) # None
       THEN LET code == RoomOf(s)[1]
                room == removePlayer(rooms[code], s)
                left == [ev |-> "playerLeft", to |-> Members(room.id) \ {s},
                         playerId |-> s]
            IN IF Len(room.players) = 0
               THEN /\ rooms' = DeleteRoom(room.id)
                    /\ order' = OrderDelete(room.id)
                    /\ out' = << left >>
               ELSE /\ rooms' = [rooms EXCEPT ![code] = room]
                    /\ UNCHANGED order
                    /\ out' = IF room.state = "waiting"
                              THEN << left, [ev |-> "hostChanged", to |-> Members(room.id) \ {s},
                                             hostId |-> room.hostId] >>
                              ELSE << left >>
       ELSE /\ out' = <<>>
            /\ UNCHANGED <<rooms, order>>

\* ------------------------------------------------------------------------
\* getSafeSpawn, draw by draw
\* ------------------------------------------------------------------------
\* One pass of the while loop of getSafeSpawn, with the Math.random()
\* outcomes r.rx, r.ry: the candidate is returned if no enemy is closer than
\* SAFE_SPAWN_RADIUS, and counted as a failed attempt otherwise.
SafeSpawnAttempt(r) ==
    /\ call.result = None
    /\ call.attempts < SAFE_SPAWN_ATTEMPTS
    /\ call' = IF IsSafe(SpawnAt(r), call.enemies)
               THEN [call EXCEPT !.draws = @ + 1, !.result = Some(SpawnAt(r))]
               ELSE [call EXCEPT !.draws = @ + 1, !.attempts = @ + 1,
                                 !.tried = @ \cup { SpawnAt(r) }]
    /\ UNCHANGED <<rooms, order, sock, clock, ticks, out, last, up>>

\* The end of getSafeSpawn once the loop has given up: return getRandomSpawn().
SafeSpawnFallback(r) ==
    /\ call.result = None
    /\ ~(call.attempts < SAFE_SPAWN_ATTEMPTS)
    /\ call' = [call EXCEPT !.draws = @ + 1, !.result = Some(SpawnAt(r))]
    /\ UNCHANGED <<rooms, order, sock, clock, ticks, out, last, up>>

\* ------------------------------------------------------------------------
\* Game loop
\* ------------------------------------------------------------------------
\* One choice of draws per registered room.
RECURSIVE LoopDraws(_, _, _)
LoopDraws(codes, now, B) ==
    IF codes = {} THEN { [c \in {} |-> NoRand] }
    ELSE LET c == CHOOSE x \in codes : TRUE
         IN { [k \in codes |-> IF k = c THEN d ELSE f[k]] :
                d \in UpdateDraws(rooms[c], now, B),
                f \in LoopDraws(codes \ {c}, now, B) }

RECURSIVE Concat(_)
Concat(seqs) == IF seqs = <<>> THEN <<>> ELSE Head(seqs) \o Concat(Tail(seqs))

\* Faulty variant of GameLoop: each room's snapshot is taken and broadcast
\* before the room is updated.
GameLoopBroadcastFirst(dt, B) ==
    /\ ticks < B.ticks
    /\ last' = Ran("tick", 0)
    /\ ticks' = ticks + 1
    /\ clock' = clock + dt
    /\ UNCHANGED <<order, sock, up, call>>
    /\ \E draws \in LoopDraws(DOMAIN rooms, clock + dt, B) :
       \E res \in { [c \in DOMAIN rooms |-> update(rooms[c], clock + dt, draws[c])] } :
            /\ rooms' = [c \in DOMAIN rooms |-> res[c].room]
            /\ out' = Concat([k \in 1..Len(order) |->
                          << [ev |-> "gameUpdate", to |-> Members(order[k]),
                              state |-> getState(rooms[order[k]])] >>
                          \o [m \in 1..Len(res[order[k]].msgs) |->
                              [res[order[k]].msgs[m] EXCEPT
                                  !.to = IF sock[res[order[k]].msgs[m].to].live
                                        THEN {res[order[k]].msgs[m].to} ELSE {}]]])

\* The setInterval callback: dt ms after the last run, every room is updated
\* and its snapshot broadcast to the room.
GameLoop(dt, B) ==
    /\ ticks < B.ticks
    /\ last' = Ran("tick", 0)
    /\ ticks' = ticks + 1
    /\ clock' = clock + dt
    /\ UNCHANGED <<order, sock, up, call>>
    /\ \E draws \in LoopDraws(DOMAIN rooms, clock + dt, B) :
       \E res \in { [c \in DOMAIN rooms |-> update(rooms[c], clock + dt, draws[c])] } :
            /\ rooms' = [c \in DOMAIN rooms |-> res[c].room]
            /\ out' = Concat([k \in 1..Len(order) |->
                          [m \in 1..Len(res[order[k]].msgs) |->
                              [res[order[k]].msgs[m] EXCEPT
                                  !.to = IF sock[res[order[k]].msgs[m].to].live
                                        THEN {res[order[k]].msgs[m].to} ELSE {}]]
                          \o << [ev |-> "gameUpdate", to |-> Members(order[k]),
                                 state |-> getState(res[order[k]].room)] >>])

\* The setInterval callback when room.update throws on the k-th room of the
\* registry: the rooms before it have been updated and broadcast; the
\* exception leaves the for loop and the callback, so the rooms after it are
\* neither updated nor broadcast in this run, and the k-th room is not
\* broadcast; it stays as it was or as the update had left it when it threw.
\* The uncaughtException handler logs the message and the process goes on.
GameLoopFault(dt, k, B) ==
    /\ ticks < B.ticks
    /\ k \in 1..Len(order)
    /\ last' = Ran("tick", 0)
    /\ ticks' = ticks + 1
    /\ clock' = clock + dt
    /\ UNCHANGED <<order, sock, up, call>>
    /\ \E draws \in LoopDraws(DOMAIN rooms, clock + dt, B) :
       \E res \in { [c \in DOMAIN rooms |-> update(rooms[c], clock + dt, draws[c])] } :
       \E torn \in { rooms[order[k]], res[order[k]].room } :
            /\ rooms' = [c \in DOMAIN rooms |->
                            IF \E j \in 1..(k - 1) : order[j] = c THEN res[c].room
                            ELSE IF c = order[k] THEN torn
                            ELSE rooms[c]]
            /\ out' = Concat([j \in 1..(k - 1) |->
                          [m \in 1..Len(res[order[j]].msgs) |->
                              [res[order[j]].msgs[m] EXCEPT
                                  !.to = IF sock[res[order[j]].msgs[m].to].live
                                        THEN {res[order[j]].msgs[m].to} ELSE {}]]
                          \o << [ev |-> "gameUpdate", to |-> Members(order[j]),
                                 state |-> getState(res[order[j]].room)] >>])
                       \o << [ev |-> "uncaughtException", to |-> {}, room |-> order[k]] >>

\* ------------------------------------------------------------------------
\* server.js, the first version of the server
\* ------------------------------------------------------------------------
\* server.js declares roomId with const and assigns it in the create branch
\* of joinRoom, before the room is built: the assignment throws a TypeError,
\* no handler catches it and the process ends. Its registry therefore never
\* holds a room, no connection is ever bound to one, and the handlers are
\* modelled on the empty registry, the only one they can meet.

\* socket.on('joinRoom', data) of server.js: no nickname test; the lookup of
\* a room code fails; the create branch throws.
V1JoinRoom(s, data) ==
    /\ up /\ sock[s].live
    /\ last' = Ran("joinRoom", s)
    /\ UNCHANGED <<rooms, order, sock, clock, ticks, call>>
    /\ IF Truthy(data.roomId)
       THEN /\ ToUpperCase(data.roomId[1]) \notin DOMAIN rooms
            /\ out' = << ErrorTo(s, "not found") >>
            /\ UNCHANGED up
       ELSE /\ out' = <<>>
            /\ up' = FALSE

\* The input, shoot, startGame and chat handlers of server.js on a connection
\* without socket.roomId: rooms.get(undefined) is undefined, nothing happens.
V1RoomEvent(s, op) ==
    /\ up /\ sock[s].live
    /\ RoomOf(s) = None
    /\ last' = Ran(op, s)
    /\ out' = <<>>
    /\ UNCHANGED <<rooms, order, sock, clock, ticks, up, call>>

\* socket.on('disconnect') of server.js on a connection without socket.roomId.
V1Disconnect(s) ==
    /\ up /\ sock[s].live
    /\ RoomOf(s) = None
    /\ last' = Ran("disconnect", s)
    /\ sock' = [sock EXCEPT ![s].live = FALSE, ![s].joined = {}]
    /\ out' = <<>>
    /\ UNCHANGED <<rooms, order, clock, ticks, up, call>>

\* The setInterval callback of server.js over the empty registry.
V1GameLoop(dt, B) ==
    /\ up /\ ticks < B.ticks
    /\ DOMAIN rooms = {}
    /\ last' = Ran("tick", 0)
    /\ ticks' = ticks + 1
    /\ clock' = clock + dt
    /\ out' = <<>>
    /\ UNCHANGED <<rooms, order, sock, up, call>>

\* ------------------------------------------------------------------------
\* Bounded environments
\* ------------------------------------------------------------------------
Nick == Some(<<" ", "b">>)
Create == [roomId |-> None, nickname |-> Nick]
JoinA == [roomId |-> Some(<<"a">>), nickname |-> Nick]
Idle == EmptyInput
FireEast == [EmptyInput EXCEPT !.angle = Some(0), !.shooting = TRUE]

\* The random outcomes explored: players spawn at x = 460, enemies at
\* x = 487.2, power-ups at x = 460, all at y = 600.
AtPlayer == [rx |-> 250, ry |-> 500]
NormalNear == [rt |-> 500, rx |-> 270, ry |-> 500]
TankNear == [rt |-> 950, rx |-> 270, ry |-> 500]
ShieldAtPlayer == [rt |-> 750, rx |-> 250, ry |-> 500]

\* The simulation environment: connection 1 creates the room, the others
\* join it by code; the game runs for up to MaxTicks loop runs, 5 s apart;
\* the initial enemies are tanks, the timed spawns normal enemies.
Sim ==
    [sockets |-> 1..NumSockets,
     genIds |-> { <<"A">> },
     joins |-> [s \in 1..NumSockets |-> IF s = 1 THEN { Create } ELSE { JoinA }],
     starters |-> 1..NumSockets,
     leavers |-> 1..NumSockets,
     inputs |-> { Some(FireEast) },
     steps |-> { 5000 },
     ticks |-> MaxTicks,
     skews |-> { 0 },
     playerRand |-> { AtPlayer },
     startRand |-> { TankNear },
     enemyRand |-> { NormalNear },
     powerupRand |-> { ShieldAtPlayer }]

\* Join requests with no usable nickname.
NoNick == [roomId |-> None, nickname |-> None]
BlankA == [roomId |-> Some(<<"a">>), nickname |-> Some(<<" ", " ">>)]
TankFar == [rt |-> 950, rx |-> 900, ry |-> 500]

\* The lobby environment: every connection may create a room (under one of
\* two codes), join room A, or send a join without a usable nickname; idle
\* inputs; one loop run of 16 ms; the enemies start far from the players.
Lobby ==
    [sockets |-> 1..LobbySockets,
     genIds |-> { <<"A">>, <<"B">> },
     joins |-> [s \in 1..LobbySockets |->
                  IF s = 1 THEN { Create, NoNick } ELSE { JoinA, BlankA }],
     starters |-> 1..LobbySockets,
     leavers |-> 1..LobbySockets,
     inputs |-> { Some(Idle) },
     steps |-> { 16 },
     ticks |-> LobbyTicks,
     skews |-> { 0 },
     playerRand |-> { AtPlayer },
     startRand |-> { TankFar },
     enemyRand |-> { NormalNear },
     powerupRand |-> { ShieldAtPlayer }]

\* The full-room environment: connection 1 creates room A and the others
\* join it by code, with or without a usable nickname.
Full ==
    [Lobby EXCEPT
        !.sockets = 1..FullSockets,
        !.genIds = { <<"A">> },
        !.joins = [s \in 1..FullSockets |->
                     CASE s = 1 -> { Create }
                       [] s = FullSockets -> { JoinA, BlankA }
                       [] OTHER -> { JoinA }],
        !.starters = { 1 },
        !.leavers = { 1 }]

\* The environment of server.js: every connection may send every join.
V1Env ==
    [sockets |-> 1..V1Sockets,
     joins |-> [s \in 1..V1Sockets |-> { Create, JoinA, NoNick, BlankA }],
     events |-> { "input", "shoot", "startGame", "chat" },
     steps |-> { 16 },
     ticks |-> V1Ticks]

\* The arena environment: connection 1 creates room A, connection 2 joins
\* it, and the host starts the game, all before the first loop run; the loop
\* then runs every 3 s, up to ArenaTicks times.  The players spawn at the west
\* margin (x = 120); connection 1 fires east, at the enemies, which spawn at
\* x = 147.2 (tanks at the start, tanks or normal enemies later); connection
\* 2 fires west, where nothing stands, and may leave.  The power-ups, a shield
\* or a damage boost, spawn where the players stand.
FireWest == [EmptyInput EXCEPT !.angle = Some(180), !.shooting = TRUE]
AtMargin == [rx |-> 0, ry |-> 500]
TankByMargin == [rt |-> 950, rx |-> 20, ry |-> 500]
NormalByMargin == [rt |-> 500, rx |-> 20, ry |-> 500]
ShieldAtMargin == [rt |-> 750, rx |-> 0, ry |-> 500]
PowerAtMargin == [rt |-> 250, rx |-> 0, ry |-> 500]

Arena ==
    [sockets |-> 1..ArenaSockets,
     genIds |-> { <<"A">> },
     joins |-> [s \in 1..ArenaSockets |-> IF s = 1 THEN { Create } ELSE { JoinA }],
     starters |-> { 1 },
     leavers |-> 2..ArenaSockets,
     aims |-> [s \in 1..ArenaSockets |->
                 IF s = 1 THEN { Some(FireEast) } ELSE { Some(FireWest) }],
     steps |-> { 3000 },
     ticks |-> ArenaTicks,
     skews |-> { 0 },
     playerRand |-> { AtMargin },
     startRand |-> { TankByMargin },
     enemyRand |-> { NormalByMargin, TankByMargin },
     powerupRand |-> { ShieldAtMargin, PowerAtMargin }]

\* ------------------------------------------------------------------------
\* Specification
\* ------------------------------------------------------------------------
InitOver(B) ==
    /\ rooms = [c \in {} |-> GameRoom(c, 0)]
    /\ order = <<>>
    /\ sock = [s \in B.sockets |-> [live |-> TRUE, roomId |-> None, joined |-> {}]]
    /\ clock = StartTime
    /\ ticks = 0
    /\ out = <<>>
    /\ last = Ran("init", 0)
    /\ up = TRUE
    /\ call = SafeSpawnCall(<<>>)

NextOver(B) ==
    \/ \E s \in B.sockets : \E data \in B.joins[s] : JoinRoom(s, data, B)
    \/ \E s \in B.sockets : \E input \in B.inputs : Input(s, input)
    \/ \E s \in B.starters : StartGame(s, B)
    \/ \E s \in B.leavers : Disconnect(s)
    \/ \E dt \in B.steps : GameLoop(dt, B)

Init == InitOver(Sim)
Next == NextOver(Sim)
Spec == Init /\ [][Next]_vars

\* The simulation environment with a loop that keeps running: setInterval
\* calls the loop for as long as the process lives.  A run of the loop is
\* told by the counter of loop runs, which no other action changes, and the
\* loop is enabled exactly while the counter is below its bound.
SimLoop == ticks < MaxTicks /\ ticks' = ticks + 1

SpecLive == Init /\ [][Next]_vars /\ WF_ticks(SimLoop)

SpecLobby == InitOver(Lobby) /\ [][NextOver(Lobby)]_vars

SpecFull == InitOver(Full) /\ [][NextOver(Full)]_vars

V1Next ==
    \/ \E s \in V1Env.sockets : \E data \in V1Env.joins[s] : V1JoinRoom(s, data)
    \/ \E s \in V1Env.sockets : \E op \in V1Env.events : V1RoomEvent(s, op)
    \/ \E s \in V1Env.sockets : V1Disconnect(s)
    \/ \E dt \in V1Env.steps : V1GameLoop(dt, V1Env)

SpecV1 == InitOver(V1Env) /\ [][V1Next]_vars

\* The arena: the handlers and the loop under the arena environment, where
\* the join-room and start-game requests all arrive before the first loop run.
ArenaJoinRoom(s, data) == ticks = 0 /\ JoinRoom(s, data, Arena)
ArenaInput(s, input) == Input(s, input)
ArenaStartGame(s) == ticks = 0 /\ StartGame(s, Arena)
ArenaDisconnect(s) == Disconnect(s)
ArenaGameLoop(dt) == GameLoop(dt, Arena)

ArenaNext ==
    \/ \E s \in Arena.sockets : \E data \in Arena.joins[s] : ArenaJoinRoom(s, data)
    \/ \E s \in Arena.sockets : \E input \in Arena.aims[s] : ArenaInput(s, input)
    \/ \E s \in Arena.starters : ArenaStartGame(s)
    \/ \E s \in Arena.leavers : ArenaDisconnect(s)
    \/ \E dt \in Arena.steps : ArenaGameLoop(dt)

SpecArena == InitOver(Arena) /\ [][ArenaNext]_vars

\* The two-room environment: two connections, each of which may create a
\* room (under one of two codes) and so be a player of two rooms; the
\* connections send a firing input, and the loop runs every 16 ms.
Twin ==
    [Lobby EXCEPT
        !.sockets = 1..TwinSockets,
        !.joins = [s \in 1..TwinSockets |-> { Create }],
        !.starters = 1..TwinSockets,
        !.leavers = 1..TwinSockets,
        !.inputs = { Some(FireEast) },
        !.ticks = TwinTicks]

SpecTwin == InitOver(Twin) /\ [][NextOver(Twin)]_vars

\* The fault environment: the two-room environment with idle inputs, where
\* the update of any one room may throw.
Faulty == [Twin EXCEPT !.inputs = { Some(Idle) }]

FaultNext ==
    \/ NextOver(Faulty)
    \/ \E dt \in Faulty.steps : \E k \in 1..Cardinality(Faulty.genIds) :
          GameLoopFault(dt, k, Faulty)

SpecFault == InitOver(Faulty) /\ [][FaultNext]_vars

\* The swarm environment: the loop runs every 16 s, so that every run of a
\* playing room is due to spawn an enemy and a power-up; both appear far from
\* the players, who send no movement, so that neither is removed and both
\* populations reach their caps.
NormalFar == [rt |-> 500, rx |-> 900, ry |-> 500]
ShieldFar == [rt |-> 750, rx |-> 900, ry |-> 500]

Swarm ==
    [Sim EXCEPT
        !.sockets = 1..SwarmSockets,
        !.joins = [s \in 1..SwarmSockets |-> IF s = 1 THEN { Create } ELSE { JoinA }],
        !.starters = 1..SwarmSockets,
        !.leavers = 1..SwarmSockets,
        !.inputs = { Some(Idle) },
        !.steps = { 16000 },
        !.ticks = SwarmTicks,
        !.startRand = { TankFar },
        !.enemyRand = { TankFar, NormalFar },
        !.powerupRand = { ShieldFar }]

SpecSwarm == InitOver(Swarm) /\ [][NextOver(Swarm)]_vars

\* The drift environment: the loop runs every 16 s and every run spawns a
\* power-up where the players stand, which the next run collects; the
\* Date.now() that applyPowerup reads is the run's time or up to MaxSkew ms
\* later, as the clock may advance between the two reads.
Drift ==
    [Swarm EXCEPT
        !.sockets = 1..DriftSockets,
        !.joins = [s \in 1..DriftSockets |-> IF s = 1 THEN { Create } ELSE { JoinA }],
        !.starters = 1..DriftSockets,
        !.leavers = 1..DriftSockets,
        !.ticks = DriftTicks,
        !.skews = 0..MaxSkew,
        !.enemyRand = { TankFar },
        !.powerupRand = { ShieldAtPlayer }]

SpecDrift == InitOver(Drift) /\ [][NextOver(Drift)]_vars

\* The rapid environment: connection 1 creates the room and the others join
\* it by code, as often as they like; the players fire east, where no enemy
\* is, and the loop runs 16 ms or 128 ms after the previous run, both less
\* than FIRE_RATE.
Rapid ==
    [Twin EXCEPT
        !.sockets = 1..RapidSockets,
        !.genIds = { <<"A">> },
        !.joins = [s \in 1..RapidSockets |-> IF s = 1 THEN { Create } ELSE { JoinA }],
        !.starters = { 1 },
        !.leavers = 1..RapidSockets,
        !.steps = { 16, 128 },
        !.ticks = RapidTicks]

SpecRapid == InitOver(Rapid) /\ [][NextOver(Rapid)]_vars

\* The orphan environment: connection 1 creates the room, connection 2 joins
\* it and the host starts the game; the players spawn at the west margin
\* (x = 120) and fire east, where normal enemies start 80 px away, so that a
\* bullet is in flight for two loop runs before it meets one; every
\* connection may leave in between.
NormalAhead == [rt |-> 500, rx |-> 59, ry |-> 500]

Orphan ==
    [Rapid EXCEPT
        !.sockets = 1..OrphanSockets,
        !.joins = [s \in 1..OrphanSockets |-> IF s = 1 THEN { Create } ELSE { JoinA }],
        !.leavers = 1..OrphanSockets,
        !.steps = { 16 },
        !.ticks = OrphanTicks,
        !.playerRand = { AtMargin },
        !.startRand = { NormalAhead },
        !.enemyRand = { TankFar }]

SpecOrphan == InitOver(Orphan) /\ [][NextOver(Orphan)]_vars

\* The volley environment: one connection creates a room and starts the
\* game; its player spawns at the west margin (x = 120) and fires west, where
\* the edge of the map is 95 px from the muzzle, east, where normal enemies
\* start 80 px away, or with an angle that is no number.  The loop runs
\* every 16 ms, and it keeps running: setInterval calls it for as long as the
\* process lives, which the weak fairness of the loop step states.
FireText == [EmptyInput EXCEPT !.angle = Some(TextAngle), !.shooting = TRUE]

Volley ==
    [Orphan EXCEPT
        !.sockets = 1..VolleySockets,
        !.joins = [s \in 1..VolleySockets |-> { Create }],
        !.starters = 1..VolleySockets,
        !.leavers = 1..VolleySockets,
        !.inputs = { Some(FireWest), Some(FireEast), Some(FireText) },
        !.ticks = VolleyTicks]

\* A run of the game loop in the volley environment, told by the counter of
\* loop runs: GameLoop is the only action that changes ticks, and it is
\* enabled exactly while ticks is below the bound of the environment.
VolleyLoop == ticks < VolleyTicks /\ ticks' = ticks + 1

SpecVolley == InitOver(Volley) /\ [][NextOver(Volley)]_vars /\ WF_ticks(VolleyLoop)

\* The walk environment: a player spawns at the west margin of the spawn
\* area, (120, 600), and walks west, by the left flag or by an analog axis
\* value; a loop run comes 16 ms after the previous one, except that the
\* first LateRuns runs may come 16 s late, and a run that is 16 s late spawns
\* a speed power-up where the player started.
WalkWest == [EmptyInput EXCEPT !.left = TRUE]
PushWest == [EmptyInput EXCEPT !.moveX = Some(-2)]
SpeedAtMargin == [rt |-> 500, rx |-> 0, ry |-> 500]

Walk ==
    [Swarm EXCEPT
        !.sockets = 1..WalkSockets,
        !.joins = [s \in 1..WalkSockets |-> { Create }],
        !.starters = 1..WalkSockets,
        !.leavers = 1..WalkSockets,
        !.inputs = { Some(WalkWest), Some(PushWest) },
        !.steps = { 16, 16000 },
        !.ticks = WalkTicks,
        !.playerRand = { AtMargin },
        !.enemyRand = { TankFar },
        !.powerupRand = { SpeedAtMargin }]

WalkGameLoop(dt) ==
    /\ dt > 16 => ticks < LateRuns
    /\ GameLoop(dt, Walk)

WalkNext ==
    \/ \E s \in Walk.sockets : \E data \in Walk.joins[s] : JoinRoom(s, data, Walk)
    \/ \E s \in Walk.sockets : \E input \in Walk.inputs : Input(s, input)
    \/ \E s \in Walk.starters : StartGame(s, Walk)
    \/ \E s \in Walk.leavers : Disconnect(s)
    \/ \E dt \in Walk.steps : WalkGameLoop(dt)

SpecWalk == InitOver(Walk) /\ [][WalkNext]_vars

\* getSafeSpawn on its own: it is called on a list of up to SeededEnemies
\* enemies, each standing next to one of the two positions the draws can give,
\* exactly SAFE_SPAWN_RADIUS away from the first, or far from both.
WestDraw == [rx |-> 250, ry |-> 500]
EastDraw == [rx |-> 750, ry |-> 500]
SpawnDraws == { WestDraw, EastDraw }

SeededEnemy(x) == [x |-> x, y |-> SpawnAt(WestDraw).y, nan |-> FALSE]
SeededSpots ==
    { SpawnAt(WestDraw).x + 272,
      SpawnAt(WestDraw).x + Px(SAFE_SPAWN_RADIUS),
      SpawnAt(WestDraw).x + Px(SAFE_SPAWN_RADIUS) - 1,
      SpawnAt(EastDraw).x - 272 }
SeededLists ==
    UNION { [1..n -> { SeededEnemy(x) : x \in SeededSpots }] : n \in 0..SeededEnemies }

SpawnInit ==
    /\ rooms = [c \in {} |-> GameRoom(c, 0)]
    /\ order = <<>>
    /\ sock = [s \in {} |-> [live |-> TRUE, roomId |-> None, joined |-> {}]]
    /\ clock = StartTime
    /\ ticks = 0
    /\ out = <<>>
    /\ last = Ran("init", 0)
    /\ up = TRUE
    /\ call \in { SafeSpawnCall(enemies) : enemies \in SeededLists }

SpawnNext ==
    \/ \E r \in SpawnDraws : SafeSpawnAttempt(r)
    \/ \E r \in SpawnDraws : SafeSpawnFallback(r)

SpecSpawn == SpawnInit /\ [][SpawnNext]_vars

\* ------------------------------------------------------------------------
\* Properties
\* ------------------------------------------------------------------------
\* Every player of every registered room.
Players ==
    UNION { { rooms[c].players[i] : i \in 1..Len(rooms[c].players) } : c \in DOMAIN rooms }

\* The events of the last step with the name ev.
Emitted(ev) == { out[k] : k \in { k \in 1..Len(out) : out[k].ev = ev } }

\* C1: after every tick, and in every state between events, every player of
\* every registered room has 0 <= health <= MAX_HEALTH.
C1_HealthInRange ==
    \A player \in Players : 0 <= player.health /\ player.health <= MAX_HEALTH

\* A loop run has just killed a player: its health is 0 and its respawn is due
\* RESPAWN_TIME after this tick.
C1_KilledThisTick ==
    /\ last.op = "tick"
    /\ \E player \in Players :
          ~player.alive /\ player.health = 0 /\ player.respawnTime = clock + RESPAWN_TIME

\* C2: after every tick, and in every state between events, every player of
\* every registered room has score >= 0.
C2_ScoreNonNegative == \A player \in Players : player.score >= 0

\* A loop run has just respawned two players that died in the same tick: one
\* with the points of one normal enemy, now 50 - RESPAWN_PENALTY (a score only
\* a respawn produces), the other with less than the penalty, now 0.
C2_RespawnedFloored ==
    /\ last.op = "tick"
    /\ \E p, q \in Players :
          /\ p.alive /\ q.alive
          /\ p.respawnTime > 0 /\ p.respawnTime < clock
          /\ q.respawnTime = p.respawnTime
          /\ p.score = 0
          /\ q.score = 50 - RESPAWN_PENALTY

\* C3: in every state between events, the hostId of every registered room is
\* a key of that room's player mapping.
C3_HostIsPlayer == \A c \in DOMAIN rooms : HasPlayer(rooms[c], rooms[c].hostId)

\* The host of a room has just left it and the room, still registered, has
\* the first remaining player as its host.
C3_HostReassigned ==
    \E ev \in Emitted("hostChanged") : \E c \in DOMAIN rooms :
        /\ rooms[c].hostId = ev.hostId
        /\ rooms[c].players[1].id = ev.hostId
        /\ \E s \in DOMAIN sock : ~sock[s].live /\ sock[s].roomId = Some(c)

\* The request names a registered room that holds MAX_PLAYERS players.
NamesFullRoom(data) ==
    /\ Truthy(data.roomId)
    /\ ToUpperCase(data.roomId[1]) \in DOMAIN rooms
    /\ Len(rooms[ToUpperCase(data.roomId[1])].players) >= MAX_PLAYERS

\* C4 as stated: every join-room request naming a room that holds MAX_PLAYERS
\* players is answered by a room-full error to the requester, and nothing
\* else changes.
C4_FullRoomError ==
    [][\A s \in Full.sockets : \A data \in Full.joins[s] :
          (NamesFullRoom(data) /\ JoinRoom(s, data, Full))
             => /\ out' = << ErrorTo(s, "full") >>
                /\ UNCHANGED <<rooms, order, sock, clock, ticks>>]_vars

\* C4, amended: a join-room request naming a room that holds MAX_PLAYERS
\* players changes nothing and is answered by one error to the requester:
\* the room-full error if its nickname passes the nickname test, which comes
\* first, and the nickname error otherwise.
C4_FullRoomRejected ==
    [][\A s \in Full.sockets : \A data \in Full.joins[s] :
          (NamesFullRoom(data) /\ JoinRoom(s, data, Full))
             => /\ out' = << ErrorTo(s, IF ValidNickname(data.nickname)
                                        THEN "full" ELSE "nickname") >>
                /\ UNCHANGED <<rooms, order, sock, clock, ticks>>]_vars

\* A connection that is not a player of a room with MAX_PLAYERS players has
\* just been refused with the room-full error.
C4_Refused ==
    \E s \in DOMAIN sock : \E c \in DOMAIN rooms :
        /\ out = << ErrorTo(s, "full") >>
        /\ Len(rooms[c].players) = MAX_PLAYERS
        /\ ~HasPlayer(rooms[c], s)

\* C5: when the connection that is the last player of a room disconnects, the
\* room leaves the registry in that same step; and a join-room request naming
\* a code that is not registered is answered by the room-not-found error and
\* changes nothing.
C5_LastLeaveRemovesRoom ==
    [][/\ \A s \in Lobby.leavers : \A c \in DOMAIN rooms :
             (PlayerIds(rooms[c]) = {s} /\ Disconnect(s)) => c \notin DOMAIN rooms'
       /\ \A s \in Lobby.sockets : \A data \in Lobby.joins[s] :
             (/\ ValidNickname(data.nickname)
              /\ Truthy(data.roomId)
              /\ ToUpperCase(data.roomId[1]) \notin DOMAIN rooms
              /\ JoinRoom(s, data, Lobby))
                => /\ out' = << ErrorTo(s, "not found") >>
                   /\ UNCHANGED <<rooms, order, sock, clock, ticks>>]_vars

\* C6: a connection whose disconnect has been processed is not a key of the
\* player mapping of any registered room.
C6_DisconnectedNotPlayer ==
    \A s \in DOMAIN sock :
        ~sock[s].live => \A c \in DOMAIN rooms : ~HasPlayer(rooms[c], s)

\* C7: a join-room request with a usable nickname and no room code leaves a
\* registered room, under a generated code, that is waiting and has the
\* requester as its only player and as its host.
C7_CreateSucceeds ==
    [][\A s \in V1Env.sockets : \A data \in V1Env.joins[s] :
          (ValidNickname(data.nickname) /\ ~Truthy(data.roomId) /\ V1JoinRoom(s, data))
             => \E c \in DOMAIN rooms' :
                   /\ rooms'[c].id = c
                   /\ rooms'[c].state = "waiting"
                   /\ PlayerIds(rooms'[c]) = {s}
                   /\ rooms'[c].hostId = s]_vars

\* C8: a join-room request whose nickname is missing, empty or blank is
\* answered by one error to the requester, and the registry, the rooms and
\* the connections are unchanged.
C8_BlankNicknameRejected ==
    [][\A s \in V1Env.sockets : \A data \in V1Env.joins[s] :
          (~ValidNickname(data.nickname) /\ V1JoinRoom(s, data))
             => /\ Len(out') = 1
                /\ out'[1].ev = "error"
                /\ out'[1].to = {s}
                /\ UNCHANGED <<rooms, order, sock>>]_vars

\* C9: a start-game request from a connection that is bound to no registered
\* room, or is not the host of the room it is bound to, changes nothing and
\* emits nothing; so does an input event from a connection bound to no
\* registered room.
C9_MisuseIgnored ==
    [][/\ \A s \in Lobby.starters :
             ((RoomOf(s) = None \/ rooms[RoomOf(s)[1]].hostId # s) /\ StartGame(s, Lobby))
                => /\ out' = <<>>
                   /\ UNCHANGED <<rooms, order, sock, clock, ticks>>
       /\ \A s \in Lobby.sockets : \A input \in Lobby.inputs :
             (RoomOf(s) = None /\ Input(s, input))
                => /\ out' = <<>>
                   /\ UNCHANGED <<rooms, order, sock, clock, ticks>>]_vars

\* A player that is not the host of its waiting room has just asked to start
\* the game: nothing was emitted and the room is still waiting.
C9_NonHostStartIgnored ==
    \E s \in DOMAIN sock :
        /\ last = Ran("startGame", s)
        /\ out = <<>>
        /\ RoomOf(s) # None
        /\ HasPlayer(rooms[RoomOf(s)[1]], s)
        /\ rooms[RoomOf(s)[1]].hostId # s
        /\ rooms[RoomOf(s)[1]].state = "waiting"

\* C10: in the state that follows a start-game request of the host of a room,
\* every player of that room is alive with health MAX_HEALTH, score 0 and
\* the four power-up expiries 0.
C10_StartResetsPlayers ==
    [][\A s \in Sim.starters :
          (RoomOf(s) # None /\ rooms[RoomOf(s)[1]].hostId = s /\ StartGame(s, Sim))
             => \A i \in 1..Len(rooms'[RoomOf(s)[1]].players) :
                   LET player == rooms'[RoomOf(s)[1]].players[i]
                   IN /\ player.alive
                      /\ player.health = MAX_HEALTH
                      /\ player.score = 0
                      /\ player.powerups = NoPowerups]_vars

\* The host has just restarted a game that was playing: a player whose respawn
\* was not yet due, hence dead at the request, is alive at full health.
C10_RestartRevives ==
    \E s \in DOMAIN sock :
        /\ last = Ran("startGame", s)
        /\ Emitted("gameStarted") # {}
        /\ RoomOf(s) # None
        /\ \E i \in 1..Len(rooms[RoomOf(s)[1]].players) :
              /\ rooms[RoomOf(s)[1]].players[i].respawnTime > clock
              /\ rooms[RoomOf(s)[1]].players[i].alive
              /\ rooms[RoomOf(s)[1]].players[i].health = MAX_HEALTH

\* C11: in the state that follows a start-game request of the host of a room,
\* the room is playing, its bullet and power-up lists are empty, and its enemy
\* list holds exactly INITIAL_ENEMIES (at most MAX_ENEMIES) enemies, each one
\* freshly spawned: at full health, unturned, at a position spawnEnemy draws.
C11_StartRepopulates ==
    [][\A s \in Sim.starters :
          (RoomOf(s) # None /\ rooms[RoomOf(s)[1]].hostId = s /\ StartGame(s, Sim))
             => LET room == rooms'[RoomOf(s)[1]]
                IN /\ room.state = "playing"
                   /\ room.bullets = <<>>
                   /\ room.powerups = <<>>
                   /\ Len(room.enemies) = INITIAL_ENEMIES
                   /\ Len(room.enemies) <= MAX_ENEMIES
                   /\ \A j \in 1..Len(room.enemies) :
                         /\ room.enemies[j].health = room.enemies[j].maxHealth
                         /\ room.enemies[j].angle = 0
                         /\ ~room.enemies[j].nan
                         /\ [x |-> room.enemies[j].x, y |-> room.enemies[j].y]
                               \in getRandomSpawn(Sim.startRand)]_vars

\* The host has just restarted a game in which shots had been fired and a
\* loop run had passed: the room holds the initial population again.
C11_Restarted ==
    \E s \in DOMAIN sock :
        /\ last = Ran("startGame", s)
        /\ Emitted("gameStarted") # {}
        /\ RoomOf(s) # None
        /\ ticks >= 2
        /\ rooms[RoomOf(s)[1]].lastEnemySpawn = clock
        /\ Len(rooms[RoomOf(s)[1]].enemies) = INITIAL_ENEMIES
        /\ \E i \in 1..Len(rooms[RoomOf(s)[1]].players) :
              rooms[RoomOf(s)[1]].players[i].lastShot > StartTime

\* C12: a loop run leaves every room that is waiting exactly as it was:
\* players, bullets, enemies, power-ups, both spawn timers, host and state.
C12_WaitingTickNoOp ==
    [][\A c \in DOMAIN rooms :
          (rooms[c].state = "waiting" /\ \E dt \in Lobby.steps : GameLoop(dt, Lobby))
             => /\ c \in DOMAIN rooms'
                /\ rooms'[c] = rooms[c]]_vars

\* A loop run has just passed over a waiting room with players, whose enemy
\* spawn timer is more than ENEMY_SPAWN_RATE behind the clock and which is
\* still empty of enemies, and over a room that is playing.
C12_WaitingRoomTicked ==
    /\ last.op = "tick"
    /\ \E c, d \in DOMAIN rooms :
          /\ rooms[c].state = "waiting"
          /\ Len(rooms[c].players) >= 1
          /\ clock - rooms[c].lastEnemySpawn > ENEMY_SPAWN_RATE
          /\ rooms[c].enemies = <<>>
          /\ rooms[d].state = "playing"
          /\ \E ev \in Emitted("gameUpdate") : ev.state = getState(rooms[c])

\* The iterations of the bullet loop of one tick, in the order they run: the
\* room each one starts from and the index of the bullet it handles.
RECURSIVE BulletLoop(_, _, _)
BulletLoop(room, i, now) ==
    IF i < 1 THEN <<>>
    ELSE << [room |-> room, i |-> i] >> \o BulletLoop(StepBullet(room, i, now), i - 1, now)

\* The number of enemies of `before` that `after` has hurt or removed: 0, 1,
\* or 2 for more than one.
EnemiesHurt(before, after) ==
    IF after.enemies = before.enemies THEN 0
    ELSE IF \/ \E j \in 1..Len(before.enemies) :
                  after.enemies = RemoveAt(before.enemies, j)
            \/ /\ Len(after.enemies) = Len(before.enemies)
               /\ Cardinality({ j \in 1..Len(before.enemies) :
                                  after.enemies[j] # before.enemies[j] }) = 1
         THEN 1
         ELSE 2

\* The bullet an iteration handles has left the list, the others untouched.
BulletGone(it, after) == after.bullets = RemoveAt(it.room.bullets, it.i)

\* The bullet an iteration handles is still in the list, the others untouched.
BulletKept(it, after) ==
    /\ Len(after.bullets) = Len(it.room.bullets)
    /\ \A m \in 1..Len(after.bullets) :
          m # it.i => after.bullets[m] = it.room.bullets[m]

\* C13: in a loop run over a playing room, every bullet is handled by one
\* iteration of the bullet loop; the iteration removes that bullet once or
\* keeps it, touches no other bullet, and hurts at most one enemy; if it hurts
\* an enemy the bullet is removed; and the bullets the room holds after the
\* run are those no iteration removed.
C13_BulletHitsOnce ==
    [][\A c \in DOMAIN rooms :
          (rooms[c].state = "playing" /\ ticks' # ticks)
             => \A spawns \in RespawnDraws(rooms[c], clock', Arena) :
                \A r1 \in { PlayerPhase(rooms[c], 1, clock', spawns) } :
                \A its \in { BulletLoop(r1, Len(r1.bullets), clock') } :
                \A after \in { [k \in 1..Len(its) |->
                                   StepBullet(its[k].room, its[k].i, clock')] } :
                  LET gone == { k \in 1..Len(its) : BulletGone(its[k], after[k]) }
                  IN /\ Len(its) = Len(r1.bullets)
                     /\ \A k \in 1..Len(its) :
                           /\ its[k].i \in 1..Len(its[k].room.bullets)
                           /\ its[k].room.bullets[its[k].i] = r1.bullets[its[k].i]
                           /\ BulletGone(its[k], after[k]) \/ BulletKept(its[k], after[k])
                           /\ EnemiesHurt(its[k].room, after[k]) <= 1
                           /\ EnemiesHurt(its[k].room, after[k]) = 1
                                 => BulletGone(its[k], after[k])
                     /\ Len(rooms'[c].bullets) = Len(r1.bullets) - Cardinality(gone)
                     /\ rooms'[c].bullets =
                           BulletPhase(r1, Len(r1.bullets), clock').bullets]_vars

\* A loop run has just passed in which a player fired at several enemies
\* standing on one spot: one of them lost BULLET_DAMAGE, another is unhurt,
\* and the bullet is gone, while a bullet that met no enemy is still flying.
C13_OneOfManyHit ==
    /\ last.op = "tick"
    /\ \E c \in DOMAIN rooms :
          /\ \E i \in 1..Len(rooms[c].players) :
                /\ rooms[c].players[i].lastShot = clock
                /\ \A b \in 1..Len(rooms[c].bullets) :
                      rooms[c].bullets[b].ownerId # rooms[c].players[i].id
          /\ rooms[c].bullets # <<>>
          /\ \E j, k \in 1..Len(rooms[c].enemies) :
                /\ rooms[c].enemies[j].x = rooms[c].enemies[k].x
                /\ rooms[c].enemies[j].y = rooms[c].enemies[k].y
                /\ rooms[c].enemies[j].health = rooms[c].enemies[j].maxHealth - BULLET_DAMAGE
                /\ rooms[c].enemies[k].health = rooms[c].enemies[k].maxHealth

\* Every enemy of the room has health > 0.
EnemiesAlive(room) == \A j \in 1..Len(room.enemies) : room.enemies[j].health > 0

\* C14: after every step every enemy of every room has health > 0; and in a
\* loop run over a playing room no iteration of the bullet loop starts from,
\* or leaves, a list with an enemy of health <= 0, so the enemies the enemy
\* phase moves and lets damage players all have health > 0, and they are the
\* enemies the room holds after the run, before the one the timed spawn may
\* add.
C14_DeadEnemyRemoved ==
    [][/\ \A c \in DOMAIN rooms' : EnemiesAlive(rooms'[c])
       /\ \A c \in DOMAIN rooms :
             (rooms[c].state = "playing" /\ ticks' # ticks)
                => \A spawns \in RespawnDraws(rooms[c], clock', Arena) :
                   \A r1 \in { PlayerPhase(rooms[c], 1, clock', spawns) } :
                   \A its \in { BulletLoop(r1, Len(r1.bullets), clock') } :
                   \A r2 \in { BulletPhase(r1, Len(r1.bullets), clock') } :
                   \A r3 \in { EnemyPhase(r2, 1, clock') } :
                      /\ \A k \in 1..Len(its) : EnemiesAlive(its[k].room)
                      /\ EnemiesAlive(r2)
                      /\ Len(r3.enemies) = Len(r2.enemies)
                      /\ Len(rooms'[c].enemies) >= Len(r3.enemies)
                      /\ SubSeq(rooms'[c].enemies, 1, Len(r3.enemies)) = r3.enemies]_vars

\* A loop run has just passed in which a player fired, and by now more
\* enemies have been killed than the timed spawns have added: the room holds
\* fewer than INITIAL_ENEMIES enemies and the player has points.
C14_EnemyKilled ==
    /\ last.op = "tick"
    /\ \E c \in DOMAIN rooms :
          /\ rooms[c].state = "playing"
          /\ Len(rooms[c].enemies) < INITIAL_ENEMIES
          /\ \E i \in 1..Len(rooms[c].players) :
                /\ rooms[c].players[i].lastShot = clock
                /\ rooms[c].players[i].score > 0

\* The bullet an iteration of the bullet loop handles, after its move.
MovedBullet(it) ==
    [it.room.bullets[it.i] EXCEPT !.x = @ + it.room.bullets[it.i].vx,
                                  !.y = @ + it.room.bullets[it.i].vy]

\* The iteration handles a bullet that, after its move, is inside the map and
\* overlaps an enemy.
BulletMeetsEnemy(it) ==
    /\ ~OutOfMap(MovedBullet(it))
    /\ \E j \in 1..Len(it.room.enemies) : Overlaps(MovedBullet(it), it.room.enemies[j])

\* The owner of the bullet is a player of the room and its damage power-up
\* expires after now.
OwnerBuffed(room, bullet, now) ==
    \E i \in 1..Len(room.players) :
        room.players[i].id = bullet.ownerId /\ room.players[i].powerups.power > now

\* C15: in a loop run over a playing room, every iteration of the bullet loop
\* whose bullet overlaps an enemy hurts one enemy it overlaps: that enemy
\* loses BULLET_DAMAGE, or 2 * BULLET_DAMAGE if the bullet's owner is a player
\* of the room whose damage power-up expires after the tick's now; if its
\* health is then <= 0 it leaves the list and the owner, if a player, gains
\* exactly its points; nothing else of the enemies and the players changes.
\* The scores the bullet phase leaves are the scores after the run.
C15_BulletDamage ==
    [][\A c \in DOMAIN rooms :
          (rooms[c].state = "playing" /\ ticks' # ticks)
             => \A spawns \in RespawnDraws(rooms[c], clock', Arena) :
                \A r1 \in { PlayerPhase(rooms[c], 1, clock', spawns) } :
                \A its \in { BulletLoop(r1, Len(r1.bullets), clock') } :
                \A r2 \in { BulletPhase(r1, Len(r1.bullets), clock') } :
                   /\ \A k \in 1..Len(its) :
                       \A after \in { StepBullet(its[k].room, its[k].i, clock') } :
                         LET before == its[k].room
                             bullet == MovedBullet(its[k])
                             damage == IF OwnerBuffed(before, bullet, clock')
                                       THEN 2 * BULLET_DAMAGE ELSE BULLET_DAMAGE
                         IN IF BulletMeetsEnemy(its[k])
                            THEN \E j \in 1..Len(before.enemies) :
                                   /\ Overlaps(bullet, before.enemies[j])
                                   /\ IF before.enemies[j].health - damage <= 0
                                      THEN /\ after.enemies = RemoveAt(before.enemies, j)
                                           /\ after.players =
                                                [i \in 1..Len(before.players) |->
                                                   IF before.players[i].id = bullet.ownerId
                                                   THEN [before.players[i] EXCEPT
                                                           !.score = @ + before.enemies[j].points]
                                                   ELSE before.players[i]]
                                      ELSE /\ after.enemies =
                                                [before.enemies EXCEPT ![j].health = @ - damage]
                                           /\ after.players = before.players
                            ELSE /\ after.enemies = before.enemies
                                 /\ after.players = before.players
                   /\ \A i \in 1..Len(r2.players) :
                         rooms'[c].players[i].score = r2.players[i].score]_vars

\* A loop run has just passed in which a player whose damage power-up, picked
\* up in an earlier run, is still active fired a bullet that hit an enemy:
\* the bullet is gone, and the player has the points of a kill.
C15_BuffedHit ==
    /\ last.op = "tick"
    /\ \E c \in DOMAIN rooms : \E i \in 1..Len(rooms[c].players) :
          /\ rooms[c].players[i].powerups.power > clock
          /\ rooms[c].players[i].powerups.power < clock + 8000
          /\ rooms[c].players[i].lastShot = clock
          /\ rooms[c].players[i].score >= 50
          /\ \A b \in 1..Len(rooms[c].bullets) :
                rooms[c].bullets[b].ownerId # rooms[c].players[i].id

\* C16: a loop run whose now is below the shield expiry of a player that is
\* alive when the run begins leaves that player alive and its health no
\* lower, whatever enemies are in contact with it.
C16_ShieldBlocksDamage ==
    [][\A c \in DOMAIN rooms :
          (rooms[c].state = "playing" /\ ticks' # ticks)
             => \A i \in 1..Len(rooms[c].players) :
                  (rooms[c].players[i].alive /\ rooms[c].players[i].powerups.shield > clock')
                     => /\ rooms'[c].players[i].id = rooms[c].players[i].id
                        /\ rooms'[c].players[i].alive
                        /\ rooms'[c].players[i].health >= rooms[c].players[i].health]_vars

\* A loop run has just passed with a player alive under a shield picked up in
\* an earlier run and at least two enemies in contact with it; another
\* player on the same spot, without a shield, has less health.
C16_ShieldedInContact ==
    /\ last.op = "tick"
    /\ \E c \in DOMAIN rooms : \E i, k \in 1..Len(rooms[c].players) :
          /\ rooms[c].players[i].alive
          /\ rooms[c].players[i].powerups.shield > clock
          /\ rooms[c].players[i].powerups.shield < clock + 5000
          /\ Cardinality({ j \in 1..Len(rooms[c].enemies) :
                             InContact(rooms[c].enemies[j], rooms[c].players[i]) }) >= 2
          /\ rooms[c].players[k].x = rooms[c].players[i].x
          /\ rooms[c].players[k].y = rooms[c].players[i].y
          /\ rooms[c].players[k].powerups.shield = 0
          /\ rooms[c].players[k].health < rooms[c].players[i].health

\* The player is dead and its respawn is not due at time now.
StaysDead(player, now) == ~player.alive /\ ~(now > player.respawnTime)

\* C17: a loop run over a playing room leaves a player that is dead when the
\* run begins and whose respawn is not due dead, with its position, health,
\* angle, last-shot time and power-up expiries unchanged; every bullet of
\* that player in the room afterwards is one it already had, moved by its
\* velocity; no power-up is reported collected by that player, and a power-up
\* with no living player within the pickup radius stays in the room.
C17_DeadPlayerFrame ==
    [][\A c \in DOMAIN rooms :
          (rooms[c].state = "playing" /\ ticks' # ticks)
             => \A i \in 1..Len(rooms[c].players) :
                  StaysDead(rooms[c].players[i], clock')
                     => LET p == rooms[c].players[i]
                            q == rooms'[c].players[i]
                            mine(bs) == { b \in 1..Len(bs) : bs[b].ownerId = p.id }
                        IN /\ q.id = p.id
                           /\ ~q.alive
                           /\ q.x = p.x /\ q.y = p.y
                           /\ q.health = p.health
                           /\ q.angle = p.angle
                           /\ q.lastShot = p.lastShot
                           /\ q.powerups = p.powerups
                           /\ Cardinality(mine(rooms'[c].bullets))
                                 <= Cardinality(mine(rooms[c].bullets))
                           /\ \A b \in mine(rooms'[c].bullets) :
                                 \E a \in mine(rooms[c].bullets) :
                                    rooms'[c].bullets[b] =
                                       [rooms[c].bullets[a] EXCEPT
                                          !.x = @ + rooms[c].bullets[a].vx,
                                          !.y = @ + rooms[c].bullets[a].vy]
                           /\ \A m \in 1..Len(out') :
                                 out'[m].ev = "powerupCollected" => out'[m].to # {p.id}
                           /\ \A m \in 1..Len(rooms[c].powerups) :
                                 (\A k \in 1..Len(rooms'[c].players) :
                                     rooms'[c].players[k].alive
                                        => ~DistLess(rooms'[c].players[k], rooms[c].powerups[m],
                                                     Px(PICKUP_RADIUS)))
                                    => \E n \in 1..Len(rooms'[c].powerups) :
                                          rooms'[c].powerups[n] =
                                             [rooms[c].powerups[m] EXCEPT !.pulse = @ + 1]]_vars

\* A loop run has just passed over a player that died in an earlier run and
\* whose respawn is not yet due: it is asking to shoot, an enemy is in contact
\* with it, and a power-up that lay within its pickup radius during the run is
\* still there.
C17_DeadPlayerPassedOver ==
    /\ last.op = "tick"
    /\ \E c \in DOMAIN rooms : \E i \in 1..Len(rooms[c].players) :
          LET p == rooms[c].players[i]
          IN /\ ~p.alive
             /\ p.respawnTime >= clock
             /\ p.respawnTime < clock + RESPAWN_TIME
             /\ p.input # None /\ p.input[1].shooting
             /\ \E j \in 1..Len(rooms[c].enemies) : InContact(rooms[c].enemies[j], p)
             /\ \E m \in 1..Len(rooms[c].powerups) :
                   /\ DistLess(p, rooms[c].powerups[m], Px(PICKUP_RADIUS))
                   /\ rooms[c].powerups[m].pulse >= 1

\* The room has just been started with two players, neither of which has
\* sent an input: no loop run has passed since the start-game request.
JustStartedIdle(room) ==
    /\ room.state = "playing"
    /\ Len(room.players) = 2
    /\ room.lastEnemySpawn = clock
    /\ \A i \in 1..Len(room.players) :
          /\ room.players[i].input = Some(EmptyInput)
          /\ room.players[i].alive
          /\ room.players[i].health = MAX_HEALTH

\* C18: the first loop run after the start of a game with two players that
\* have sent no input, coming before the enemy spawn timer has elapsed,
\* leaves both players where start-game put them, with health MAX_HEALTH.
C18_FirstTickHarmless ==
    [][\A c \in DOMAIN rooms :
          (/\ JustStartedIdle(rooms[c])
           /\ ticks' # ticks
           /\ ~(clock' - rooms[c].lastEnemySpawn > ENEMY_SPAWN_RATE))
             => \A i \in 1..Len(rooms[c].players) :
                   /\ rooms'[c].players[i].x = rooms[c].players[i].x
                   /\ rooms'[c].players[i].y = rooms[c].players[i].y
                   /\ rooms'[c].players[i].health = MAX_HEALTH]_vars

\* The position is at distance >= SAFE_SPAWN_RADIUS from every enemy.
ClearOf(p, enemies) ==
    \A j \in 1..Len(enemies) :
        DistSq(p, enemies[j]) >= Px(SAFE_SPAWN_RADIUS) * Px(SAFE_SPAWN_RADIUS)

\* C19: a getSafeSpawn call draws at most SAFE_SPAWN_ATTEMPTS + 1 positions;
\* every candidate it rejected is closer than SAFE_SPAWN_RADIUS to an enemy;
\* a position returned before the budget is spent is the first candidate at
\* distance >= SAFE_SPAWN_RADIUS from every enemy; a position returned
\* otherwise is the one draw made after SAFE_SPAWN_ATTEMPTS rejections.
C19_SafeSpawn ==
    /\ call.draws <= SAFE_SPAWN_ATTEMPTS + 1
    /\ call.attempts <= SAFE_SPAWN_ATTEMPTS
    /\ \A p \in call.tried : ~ClearOf(p, call.enemies)
    /\ call.result = None => call.draws = call.attempts
    /\ call.result # None =>
          /\ call.result[1] \in getSafeSpawn(call.enemies, SpawnDraws)
          /\ IF call.attempts < SAFE_SPAWN_ATTEMPTS
             THEN /\ ClearOf(call.result[1], call.enemies)
                  /\ call.draws = call.attempts + 1
             ELSE /\ call.draws = SAFE_SPAWN_ATTEMPTS + 1
                  /\ call.result[1] \in getRandomSpawn(SpawnDraws)

\* A call has returned its last budgeted draw, the first one clear of the
\* enemies, after rejecting all the draws before it.
C19_LastAttemptSafe ==
    /\ call.result # None
    /\ call.enemies # <<>>
    /\ call.attempts = SAFE_SPAWN_ATTEMPTS - 1
    /\ call.draws = SAFE_SPAWN_ATTEMPTS
    /\ call.tried # {}
    /\ ClearOf(call.result[1], call.enemies)

\* The positions in `msgs` of the game-update broadcasts about room c.
UpdatesOf(msgs, c) ==
    { k \in 1..Len(msgs) : msgs[k].ev = "gameUpdate" /\ msgs[k].state.id = c }

\* C20: a loop run keeps the registry's keys, leaves every room as one update
\* with the run's now leaves it, and emits, for every room, exactly one
\* game-update broadcast, addressed to the members of the room and carrying
\* the snapshot of the room as that update left it; it emits no other
\* game-update broadcast.
C20_UpdateThenBroadcast ==
    [][ticks' # ticks
         => /\ DOMAIN rooms' = DOMAIN rooms
            /\ Cardinality({ k \in 1..Len(out') : out'[k].ev = "gameUpdate" })
                  = Cardinality(DOMAIN rooms)
            /\ \A c \in DOMAIN rooms :
                  /\ \E d \in UpdateDraws(rooms[c], clock', Lobby) :
                        rooms'[c] = update(rooms[c], clock', d).room
                  /\ Cardinality(UpdatesOf(out', c)) = 1
                  /\ \A k \in UpdatesOf(out', c) :
                        /\ out'[k].to = Members(c)
                        /\ out'[k].state = getState(rooms'[c])]_vars

\* A loop run has just passed over two rooms, one of them playing: both were
\* broadcast, and the snapshot of the playing one shows its enemies turned
\* towards the players, as the update of this run left them.
C20_TwoRoomsBroadcast ==
    /\ last.op = "tick"
    /\ Cardinality(DOMAIN rooms) = 2
    /\ Cardinality(Emitted("gameUpdate")) = 2
    /\ \E ev \in Emitted("gameUpdate") :
          /\ ev.state.state = "playing"
          /\ ev.to # {}
          /\ ev.state.enemies # <<>>
          /\ \A j \in 1..Len(ev.state.enemies) : ev.state.enemies[j].angle = 180
          /\ ev.state = getState(rooms[ev.state.id])

\* The room whose update threw in the last loop run, if any.
Faulted(msgs) ==
    { msgs[m].room : m \in { m \in 1..Len(msgs) : msgs[m].ev = "uncaughtException" } }

\* C21: a loop run in which the update of one room throws leaves the process
\* running, and every other registered room is updated and broadcast in that
\* run.
C21_FaultIsolated ==
    [][ticks' # ticks
         => \A c \in Faulted(out') :
               /\ up'
               /\ \A o \in DOMAIN rooms \ {c} :
                     /\ \E d \in UpdateDraws(rooms[o], clock', Faulty) :
                           rooms'[o] = update(rooms[o], clock', d).room
                     /\ Cardinality(UpdatesOf(out', o)) = 1]_vars

\* The other rooms: every registered room but the one the connection's
\* socket.roomId names.
OtherRooms(s) ==
    IF RoomOf(s) = None THEN DOMAIN rooms ELSE DOMAIN rooms \ {RoomOf(s)[1]}

HostWithPeers(s) ==
    /\ RoomOf(s) # None
    /\ rooms[RoomOf(s)[1]].hostId = s
    /\ PlayerIds(rooms[RoomOf(s)[1]]) \ {s} # {}

\* The notices of the last step with the name ev, as positions in msgs.
Notices(msgs, ev) == { k \in 1..Len(msgs) : msgs[k].ev = ev }

\* The disconnect of a host with peers makes a remaining player the host and
\* sends one peer-left notice, naming the leaver, to the remaining members.
HostPromoted(s) ==
    \A c \in { RoomOf(s)[1] } :
        /\ c \in DOMAIN rooms'
        /\ rooms'[c].hostId # s
        /\ rooms'[c].hostId \in PlayerIds(rooms'[c])
        /\ PlayerIds(rooms'[c]) = PlayerIds(rooms[c]) \ {s}
        /\ Cardinality(Notices(out', "playerLeft")) = 1
        /\ \A k \in Notices(out', "playerLeft") :
              out'[k].playerId = s /\ out'[k].to = Members(c) \ {s}

\* One host-changed notice, naming the new host, goes to the room.
HostAnnounced(s) ==
    \A c \in { RoomOf(s)[1] } :
        /\ Cardinality(Notices(out', "hostChanged")) = 1
        /\ \A k \in Notices(out', "hostChanged") :
              out'[k].hostId = rooms'[c].hostId /\ out'[k].to = Members(c) \ {s}

C24_JoinAcknowledged ==
    [][\A s \in DOMAIN sock :
          (last'.op = "joinRoom" /\ last'.s = s /\ Notices(out', "error") = {})
             => /\ Len(out') = 2
                /\ Cardinality(Notices(out', "roomJoined")) = 1
                /\ Cardinality(Notices(out', "playerJoined")) = 1
                /\ \A k \in Notices(out', "roomJoined") :
                      /\ out'[k].to = {s}
                      /\ out'[k].playerId = s
                      /\ out'[k].roomId \in DOMAIN rooms'
                      /\ out'[k].state = getState(rooms'[out'[k].roomId])
                      /\ \E i \in 1..Len(out'[k].state.players) :
                            out'[k].state.players[i].id = s
                      /\ out'[k].isHost = (s = rooms'[out'[k].roomId].hostId)
                      /\ \A j \in Notices(out', "playerJoined") :
                            /\ out'[j].player.id = s
                            /\ s \notin out'[j].to
                            /\ out'[j].to = { t \in DOMAIN sock :
                                  sock'[t].live /\ out'[k].roomId \in sock'[t].joined } \ {s}
                            /\ \A t \in PlayerIds(rooms'[out'[k].roomId]) \ {s} :
                                  sock'[t].live => t \in out'[j].to]_vars

\* A connection has joined an existing room that another connection hosts:
\* its acknowledgement has the host flag false and the host got the notice.
C24_JoinedAsGuest ==
    /\ last.op = "joinRoom"
    /\ \E k \in Notices(out, "roomJoined") :
          /\ out[k].to = {last.s}
          /\ ~out[k].isHost
          /\ \E j \in Notices(out, "playerJoined") :
                rooms[out[k].roomId].hostId \in out[j].to

\* The bullets of a list that the player `id` owns.
BulletsOf(bullets, id) == { k \in 1..Len(bullets) : bullets[k].ownerId = id }

\* C25: when a loop run finds a dead player whose respawn time has passed,
\* then after the player loop that player is alive with health MAX_HEALTH,
\* the four power-up expiries 0 and the score max(0, score - 25); it stands
\* at the position getSafeSpawn returned, with its angle as before, and it
\* has not fired: its lastShot and its bullets are as before.
C25_RespawnResets ==
    [][\A c \in DOMAIN rooms :
          (rooms[c].state = "playing" /\ ticks' # ticks)
             => \A spawns \in RespawnDraws(rooms[c], clock', Arena) :
                \A r1 \in { PlayerPhase(rooms[c], 1, clock', spawns) } :
                \A i \in 1..Len(rooms[c].players) :
                    Respawning(rooms[c], i, clock')
                       => \A p \in { rooms[c].players[i] } :
                          \A q \in { r1.players[i] } :
                             /\ q.id = p.id
                             /\ q.alive
                             /\ q.health = MAX_HEALTH
                             /\ q.powerups = [rapid |-> 0, power |-> 0, speed |-> 0, shield |-> 0]
                             /\ q.score = IF p.score - 25 > 0 THEN p.score - 25 ELSE 0
                             /\ q.x = spawns[i].x /\ q.y = spawns[i].y
                             /\ q.angle = p.angle
                             /\ q.lastShot = p.lastShot
                             /\ Cardinality(BulletsOf(r1.bullets, p.id))
                                   = Cardinality(BulletsOf(rooms[c].bullets, p.id))]_vars

\* A loop run has respawned a player: it died two runs ago, its respawn time
\* passed before this run, and it is alive again with a score that the
\* penalty has reduced but not emptied.
C25_JustRespawned ==
    /\ last.op = "tick"
    /\ \E player \in Players :
          /\ player.alive
          /\ player.respawnTime > 0
          /\ \E dt \in Arena.steps : clock = player.respawnTime + dt
          /\ player.score > 0

\* The player `id` of room c is dead before the step and alive after it, in
\* the same room: a room that a new one has replaced under its code is
\* waiting, and a room with a dead player is playing.
Revived(c, id) ==
    /\ HasPlayer(rooms[c], id)
    /\ ~rooms[c].players[PlayerIndex(rooms[c], id)].alive
    /\ c \in DOMAIN rooms'
    /\ rooms'[c].state = "playing"
    /\ HasPlayer(rooms'[c], id)
    /\ rooms'[c].players[PlayerIndex(rooms'[c], id)].alive

\* C26: a player that died in a loop run with time t, so that its respawn
\* time is t + RESPAWN_TIME, is still dead after every loop run whose now is
\* at most its respawn time, and a dead player becomes alive only in a loop
\* run whose now is past its respawn time or by a start-game request.
C26_DeadUntilRespawn ==
    [][\A c \in DOMAIN rooms : \A id \in PlayerIds(rooms[c]) :
          Revived(c, id)
             => \/ last'.op = "startGame"
                \/ /\ last'.op = "tick"
                   /\ clock' > rooms[c].players[PlayerIndex(rooms[c], id)].respawnTime]_vars

\* C27: in every reachable state every room has at most MAX_ENEMIES enemies.
C27_EnemyCap ==
    \A c \in DOMAIN rooms : Len(rooms[c].enemies) <= MAX_ENEMIES

\* A loop run that was due to spawn an enemy has met a room at the cap: the
\* room has MAX_ENEMIES enemies and its enemy timer is a full period old.
C27_SpawnRefusedAtCap ==
    /\ last.op = "tick"
    /\ \E c \in DOMAIN rooms :
          /\ rooms[c].state = "playing"
          /\ Len(rooms[c].enemies) = MAX_ENEMIES
          /\ clock - rooms[c].lastEnemySpawn > ENEMY_SPAWN_RATE

\* The room as the first four phases of update leave it, before the timed
\* spawns.
BeforeSpawn(room, now, spawns, dateNow) ==
    LET r1 == PlayerPhase(room, 1, now, spawns)
        r2 == BulletPhase(r1, Len(r1.bullets), now)
        r3 == EnemyPhase(r2, 1, now)
    IN PowerupPhase([room |-> r3, msgs |-> <<>>], Len(r3.powerups), dateNow).room

\* C28: a loop run resets the power-up timer only when it spawns a power-up;
\* when the spawn phase finds MAX_POWERUPS power-ups, none is added and
\* lastPowerupSpawn keeps its value.
C28_TimerResetOnlyOnSpawn ==
    [][\A c \in DOMAIN rooms :
          (rooms[c].state = "playing" /\ ticks' # ticks)
             => \A spawns \in RespawnDraws(rooms[c], clock', Swarm) :
                \A r4 \in { BeforeSpawn(rooms[c], clock', spawns, clock') } :
                   /\ Len(r4.powerups) >= MAX_POWERUPS
                         => /\ rooms'[c].powerups = r4.powerups
                            /\ rooms'[c].lastPowerupSpawn = rooms[c].lastPowerupSpawn
                   /\ rooms'[c].lastPowerupSpawn # rooms[c].lastPowerupSpawn
                         => Len(rooms'[c].powerups) = Len(r4.powerups) + 1]_vars

\* The room as the player, bullet and enemy phases of update leave it, when
\* the collection phase begins.
BeforeCollection(room, now, spawns) ==
    LET r1 == PlayerPhase(room, 1, now, spawns)
        r2 == BulletPhase(r1, Len(r1.bullets), now)
    IN EnemyPhase(r2, 1, now)

\* The expiry of a kind of power-up in a player's power-up record.
ExpiryOf(powerups, type) ==
    CASE type = "rapid"  -> powerups.rapid
      [] type = "power"  -> powerups.power
      [] type = "speed"  -> powerups.speed
      [] type = "shield" -> powerups.shield

\* C29: in a loop run, every power-up that has a living player within the
\* pickup radius when the collection phase begins is gone from the room
\* afterwards; the first living player within range has the expiry of its
\* kind at the run's now plus its duration, and exactly one
\* power-up-collected notice of that kind is sent, to that player's
\* connection; a player that collects nothing keeps its expiries, and no
\* other power-up-collected notice is sent.
C29_CollectedOnce ==
    [][\A c \in DOMAIN rooms :
          (rooms[c].state = "playing" /\ ticks' # ticks)
             => \A spawns \in RespawnDraws(rooms[c], clock', Drift) :
                \A r3 \in { BeforeCollection(rooms[c], clock', spawns) } :
                \A reach \in { { m \in 1..Len(r3.powerups) :
                                    Collector(r3, r3.powerups[m]) # 0 } } :
                   /\ Cardinality(Notices(out', "powerupCollected")) = Cardinality(reach)
                   /\ \A k \in 1..Len(rooms'[c].powerups) :
                         rooms'[c].powerups[k].pulse >= 1
                            => Collector(r3, rooms'[c].powerups[k]) = 0
                   /\ \A m \in reach :
                      \A n \in { Collector(r3, r3.powerups[m]) } :
                         /\ ExpiryOf(rooms'[c].players[n].powerups, r3.powerups[m].type)
                               = clock' + r3.powerups[m].duration
                         /\ \E k \in Notices(out', "powerupCollected") :
                               /\ out'[k].to = {r3.players[n].id}
                               /\ out'[k].type = r3.powerups[m].type
                   /\ \A j \in 1..Len(r3.players) :
                         (\A m \in reach : Collector(r3, r3.powerups[m]) # j)
                            => rooms'[c].players[j].powerups = r3.players[j].powerups]_vars

\* The set of the bullets of a list.
BulletSet(bullets) == { bullets[k] : k \in 1..Len(bullets) }

\* The bullets that the player loop has appended to the list of the room.
Fired(room, r1) == { r1.bullets[k] : k \in (Len(room.bullets) + 1)..Len(r1.bullets) }

\* C30: a step that is not a loop run creates no bullet; a loop run fires at
\* most one bullet for a player, and the bullet it fires is created at least
\* the cooldown after every bullet of the same owner that is in the room:
\* FIRE_RATE, or FIRE_RATE / 2.5 when the owner's rapid-fire expiry is
\* greater than the run's now.
C30_FireCooldown ==
    [][/\ ticks' = ticks
          => \A c \in DOMAIN rooms' :
                BulletSet(rooms'[c].bullets)
                   \subseteq (IF c \in DOMAIN rooms THEN BulletSet(rooms[c].bullets) ELSE {})
       /\ ticks' # ticks
          => \A c \in DOMAIN rooms :
                rooms[c].state = "playing"
                   => \A spawns \in RespawnDraws(rooms[c], clock', Rapid) :
                      \A r1 \in { PlayerPhase(rooms[c], 1, clock', spawns) } :
                      \A i \in 1..Len(rooms[c].players) :
                      \A p \in { rooms[c].players[i] } :
                         /\ Cardinality({ b \in Fired(rooms[c], r1) : b.ownerId = p.id }) <= 1
                         /\ \A b \in Fired(rooms[c], r1) : \A a \in BulletSet(rooms[c].bullets) :
                               (b.ownerId = p.id /\ a.ownerId = p.id)
                                  => IF p.powerups.rapid > clock'
                                     THEN (b.born - a.born) * 25 >= FIRE_RATE * 10
                                     ELSE b.born - a.born >= FIRE_RATE]_vars

WithoutInputs(room) ==
    [room EXCEPT !.players = [i \in 1..Len(room.players) |->
                                [room.players[i] EXCEPT !.input = None]]]

\* C32: an input event leaves the clock, the registry's keys, the connections
\* and every room as they were, but for the stored input snapshot of the
\* sending connection's player in the room the connection is bound to, and
\* sends nothing: positions, angles, health, scores, alive flags, bullets,
\* enemies, power-ups and timers are as before.
C32_InputOnlyStored ==
    [][\A s \in DOMAIN sock :
          (last'.op = "input" /\ last'.s = s)
             => /\ clock' = clock /\ ticks' = ticks /\ sock' = sock /\ order' = order
                /\ out' = <<>>
                /\ DOMAIN rooms' = DOMAIN rooms
                /\ \A c \in DOMAIN rooms :
                      /\ WithoutInputs(rooms'[c]) = WithoutInputs(rooms[c])
                      /\ \A i \in 1..Len(rooms[c].players) :
                            rooms'[c].players[i].input # rooms[c].players[i].input
                               => /\ rooms[c].players[i].id = s
                                  /\ RoomOf(s) = Some(c)]_vars

\* An input has been stored for a player of a playing room that has bullets
\* in flight and enemies.
C32_InputDuringPlay ==
    /\ last.op = "input"
    /\ RoomOf(last.s) # None
    /\ \A room \in { rooms[RoomOf(last.s)[1]] } :
          /\ room.state = "playing"
          /\ HasPlayer(room, last.s)
          /\ room.players[PlayerIndex(room, last.s)].input = Some(FireEast)
          /\ room.bullets # <<>>
          /\ room.enemies # <<>>
          /\ ticks > 0

\* C33: in a loop run over a playing room, an iteration of the bullet loop
\* whose bullet overlaps an enemy and whose owner is no player of the room
\* takes exactly BULLET_DAMAGE from the last enemy it overlaps, removes that
\* enemy if its health is then <= 0, removes the bullet, and leaves every
\* player as it was, the scores included.
C33_OrphanBullet ==
    [][\A c \in DOMAIN rooms :
          (rooms[c].state = "playing" /\ ticks' # ticks)
             => \A spawns \in RespawnDraws(rooms[c], clock', Orphan) :
                \A r1 \in { PlayerPhase(rooms[c], 1, clock', spawns) } :
                \A its \in { BulletLoop(r1, Len(r1.bullets), clock') } :
                   \A k \in 1..Len(its) :
                      (/\ BulletMeetsEnemy(its[k])
                       /\ ~HasPlayer(its[k].room, MovedBullet(its[k]).ownerId))
                         => \A after \in { StepBullet(its[k].room, its[k].i, clock') } :
                            \A j \in { HitIndex(MovedBullet(its[k]), its[k].room.enemies) } :
                               LET before == its[k].room
                               IN /\ after.players = before.players
                                  /\ after.bullets = RemoveAt(before.bullets, its[k].i)
                                  /\ IF before.enemies[j].health - BULLET_DAMAGE <= 0
                                     THEN after.enemies = RemoveAt(before.enemies, j)
                                     ELSE after.enemies =
                                             [before.enemies EXCEPT ![j].health = @ - BULLET_DAMAGE]]_vars

\* The third loop run, the first in which a bullet can have reached an
\* enemy, has just passed: an enemy is gone, the connection that fired has
\* left, and the player that remains has no points.
C33_OrphanKill ==
    /\ last.op = "tick" /\ ticks = 3
    /\ \E c \in DOMAIN rooms :
          /\ rooms[c].state = "playing"
          /\ Len(rooms[c].enemies) < INITIAL_ENEMIES
          /\ Len(rooms[c].players) = 1
          /\ \A i \in 1..Len(rooms[c].players) : rooms[c].players[i].score = 0

\* C34: every connection is a player of at most one registered room, and the
\* room it is a player of is the one its socket.roomId names.
C34_OneRoomPerConnection ==
    \A s \in DOMAIN sock :
        /\ Cardinality({ c \in DOMAIN rooms : HasPlayer(rooms[c], s) }) <= 1
        /\ \A c \in DOMAIN rooms : HasPlayer(rooms[c], s) => sock[s].roomId = Some(c)

\* C35: a join-room request with a usable nickname and no room code leaves
\* every room that was registered still registered under its code, with the
\* players it had, and registers one room more, under a code that was not in
\* use.
C35_CreateKeepsRooms ==
    [][\A s \in Twin.sockets : \A data \in Twin.joins[s] :
          (ValidNickname(data.nickname) /\ ~Truthy(data.roomId) /\ JoinRoom(s, data, Twin))
             => /\ \A c \in DOMAIN rooms :
                      c \in DOMAIN rooms' /\ rooms'[c].players = rooms[c].players
                /\ \E c \in DOMAIN rooms' \ DOMAIN rooms :
                      DOMAIN rooms' = DOMAIN rooms \cup {c}]_vars

\* The step is a join-room request with no room code that has registered a
\* newly constructed room under the code c.
Recreated(c) ==
    \E s \in Rapid.sockets : \E data \in Rapid.joins[s] :
    \E spawn \in getSafeSpawn(<<>>, Rapid.playerRand) :
        /\ last' = Ran("joinRoom", s)
        /\ ValidNickname(data.nickname) /\ ~Truthy(data.roomId)
        /\ rooms'[c] = addPlayer(GameRoom(c, s), s, Trim(data.nickname[1]), spawn)

\* C36: a room that is playing is, after any step, playing or no longer in
\* the registry, either deleted or displaced by a newly constructed room that
\* a join-room request has registered under its code.
C36_PlayingStaysPlaying ==
    [][\A c \in DOMAIN rooms :
          (rooms[c].state = "playing" /\ c \in DOMAIN rooms')
             => rooms'[c].state = "playing" \/ Recreated(c)]_vars

\* The host of a room in which a player has fired, so that the room was
\* playing, has sent start-game again, and the room is playing.
C36_StartedAgain ==
    /\ last.op = "startGame"
    /\ \E c \in DOMAIN rooms :
          /\ rooms[c].state = "playing"
          /\ rooms[c].hostId = last.s /\ RoomOf(last.s) = Some(c)
          /\ \E i \in 1..Len(rooms[c].players) : rooms[c].players[i].lastShot > 0

\* C37: in every state between events, every player of every registered room
\* is alive exactly when its health is above 0: a dead player has health 0
\* and a living player has a health in 1..MAX_HEALTH.
C37_AliveIffHealthy ==
    \A player \in Players :
        IF player.alive
        THEN 1 <= player.health /\ player.health <= MAX_HEALTH
        ELSE player.health = 0

\* After a loop run one player of a room is dead and another, hurt by an
\* enemy, is alive with less than full health.
C37_DeadBesideWounded ==
    /\ last.op = "tick"
    /\ \E p, q \in Players :
          /\ ~p.alive /\ p.health = 0
          /\ q.alive /\ q.health < MAX_HEALTH

\* C38: in every state between events, no two players of a registered room
\* have the same display color.
C38_DistinctColors ==
    \A c \in DOMAIN rooms : \A i, j \in 1..Len(rooms[c].players) :
        i # j => rooms[c].players[i].color # rooms[c].players[j].color

\* The bullet lies inside the map; a position that is NaN does not.
InsideMap(b) ==
    /\ ~b.nan
    /\ 0 <= b.x /\ b.x <= Px(MAP_WIDTH)
    /\ 0 <= b.y /\ b.y <= Px(MAP_HEIGHT)

\* The number of loop runs after which a bullet that flies along the x axis
\* and meets no enemy is out of the map.
RunsToEdge(b) ==
    IF b.vx < 0 THEN b.x \div (-b.vx) + 1
    ELSE IF b.vx > 0 THEN (Px(MAP_WIDTH) - b.x) \div b.vx + 1
    ELSE 1

\* The creation times of the bullets of the volley environment.
VolleyTimes == { StartTime + k * dt : k \in 1..VolleyTicks, dt \in Volley.steps }

\* The bullets of room c that connection s fired at time t.
FiredAt(c, s, t) ==
    IF c \in DOMAIN rooms
    THEN { i \in 1..Len(rooms[c].bullets) :
             rooms[c].bullets[i].ownerId = s /\ rooms[c].bullets[i].born = t }
    ELSE {}

\* Room c is playing and holds a bullet that s fired at t, and the loop has
\* at least as many runs ahead as the bullet needs to reach the edge.
InFlight(c, s, t) ==
    /\ FiredAt(c, s, t) # {}
    /\ rooms[c].state = "playing"
    /\ \A i \in FiredAt(c, s, t) : ticks + RunsToEdge(rooms[c].bullets[i]) <= VolleyTicks

\* C39: in every state between events every bullet of every room lies inside
\* the map, and a bullet in the list of a playing room is no longer there
\* once the loop has run as often as a flight to the edge of the map takes.
C39_BulletsLeave ==
    /\ [](\A c \in DOMAIN rooms : \A i \in 1..Len(rooms[c].bullets) :
             InsideMap(rooms[c].bullets[i]))
    /\ \A c \in Volley.genIds : \A s \in Volley.sockets : \A t \in VolleyTimes :
          InFlight(c, s, t) ~> (FiredAt(c, s, t) = {})

\* Connection s is a dead player of the playing room c.
DeadIn(c, s) ==
    /\ c \in DOMAIN rooms
    /\ rooms[c].state = "playing"
    /\ HasPlayer(rooms[c], s)
    /\ ~rooms[c].players[PlayerIndex(rooms[c], s)].alive

\* The number of loop runs after which now is past the respawn time of the
\* player, with the shortest step of the simulation environment.
RunsToRespawn(player) ==
    LET dt == CHOOSE d \in Sim.steps : \A e \in Sim.steps : d <= e
    IN IF clock >= player.respawnTime THEN 1
       ELSE (player.respawnTime - clock) \div dt + 1

\* C40: a dead player of a playing room, with as many loop runs ahead as its
\* respawn time takes, is no longer a dead player of that room later on: if
\* it is still a player and the room is still playing, it is alive.
C40_DeadRespawns ==
    \A c \in Sim.genIds : \A s \in Sim.sockets :
        (/\ DeadIn(c, s)
         /\ ticks + RunsToRespawn(rooms[c].players[PlayerIndex(rooms[c], s)]) <= MaxTicks)
           ~> ~DeadIn(c, s)

\* A loop run has respawned a player that died in the run before it: now is
\* one step past the time of its death.
C40_RespawnedNextRun ==
    /\ last.op = "tick"
    /\ \E c \in DOMAIN rooms : \E i \in 1..Len(rooms[c].players) :
          /\ rooms[c].state = "playing"
          /\ rooms[c].players[i].alive
          /\ \E dt \in Sim.steps :
                rooms[c].players[i].respawnTime = clock - dt + RESPAWN_TIME

====
